---------------------------- MODULE Spec2Model ----------------------------
(***************************************************************************)
(* A model of AdbHelper's core: the bridge command runner, the device      *)
(* enumeration parser, the connect controller, the installation ladder     *)
(* with its diagnosis pass (src/core/adb_utils.py), the identity resolver  *)
(* (src/core/device_manager.py) and the main window's worker bookkeeping   *)
(* (src/ui/main_window.py).                                                *)
(*                                                                         *)
(* Texts.  A Python str is modelled as a sequence of atoms.  An atom is a  *)
(* TLA+ string standing for a fragment of text that none of the code's     *)
(* tests cuts: a single character where the code splits, strips or        *)
(* substring-matches inside (whitespace, "*", the characters of a device   *)
(* id), a whole phrase elsewhere.  `needle in text` is then "needle is a   *)
(* contiguous subsequence of text".  The messages the program writes in    *)
(* Chinese are rendered by ASCII atoms; the original is in the comment.    *)
(* Python's None is the reserved one-atom text None.                       *)
(***************************************************************************)
EXTENDS Naturals, Sequences, FiniteSets, TLC

VARIABLES
    pc,          \* position of the core call in progress
    op,          \* the public operation called: "install" | "connect"
    adb_exe,     \* what get_adb_executable() finds: a path, or None
    device_id,   \* install_apk's device_id argument
    apk_path,    \* install_apk's apk_path argument
    fs,          \* the file at apk_path: [exists, readable, content]
    ip_address,  \* connect_device's ip_address argument
    devices,     \* the local `devices` of the running call
    i,           \* the 1-based index of enumerate(install_methods, 1)
    result,      \* the local `result` of the running call
    diagnosis,   \* the list diagnose_install_issue builds
    device_info, \* the dict get_device_info builds
    calls,       \* every run_adb_command invocation so far, in order
    ret,         \* the value the operation returned (None while running)
    log_file,    \* pull_logs: what was written to output_path (None: nothing)
    current_worker,   \* MainWindow.current_worker
    install_workers,  \* MainWindow.install_workers
    workers,          \* the worker threads started and not yet collected
    next_id,          \* identity of the next worker object constructed
    selected,         \* MainWindow.device_id (the device picked in the list)
    device_list,      \* the texts of the items of MainWindow.device_list
    timers,           \* pending QTimer.singleShot(refresh_devices) shots,
                      \* counted by the code that set them
    last,             \* what the last request handler did
    rejected,         \* the worker objects constructed and turned away
    p_in,        \* parser check: the lines of the enumeration listing drawn
    p_out,       \* parser check: what get_connected_devices returned
    ui_blocking, \* the blocking calls the last UI-thread handler ran itself
    cfg,         \* the mapping file at devices_config_path
    mac_to_name, \* DeviceManager.mac_to_name, in dict (insertion) order
    prev_map,    \* the mapping the previous load of the same file returned
    loads,       \* how many times _load_mac_mapping has run
    dm_pc,       \* position of the DeviceManager call
    dm_op,       \* "resolve_name" | "usable_devices" once one was called
    dm_arg,      \* get_device_name's device_id argument
    dm_mac,      \* the local `mac` of get_device_name
    dm_name,     \* what get_device_name returned
    dm_usable,   \* what get_usable_devices returned
    scans,       \* every `arp -a` run so far: what the subprocess did
    r_in,        \* runner check: [exe, outcome] of one run_adb_command call
    r_out,       \* runner check: what run_adb_command returned
    r_execs,     \* runner check: subprocess.run executions of that call
    adb_file,    \* whether <base_dir>/adb/adb.exe exists right now
    r_log        \* every run_adb_command invocation of the process, in order

coreVars == <<pc, op, adb_exe, device_id, apk_path, fs, ip_address, devices,
              i, result, diagnosis, device_info, calls, ret, log_file>>
uiVars == <<current_worker, install_workers, workers, next_id, selected,
            device_list,
            timers, last, rejected, ui_blocking>>
parseVars == <<p_in, p_out>>
dmVars == <<cfg, mac_to_name, prev_map, loads, dm_pc, dm_op, dm_arg, dm_mac,
            dm_name, dm_usable, scans>>
runVars == <<r_in, r_out, r_execs, adb_file, r_log>>
vars == <<coreVars, uiVars, parseVars, dmVars, runVars>>

-----------------------------------------------------------------------------
(* Text helpers: what the Python str methods used by the code compute.     *)

None == <<"<None>">>

IsSpace(a) == a \in {" ", "\t", "\n", "\r"}

RECURSIVE LStrip(_)
LStrip(s) == IF s # <<>> /\ IsSpace(Head(s)) THEN LStrip(Tail(s)) ELSE s

RECURSIVE RStrip(_)
RStrip(s) ==
    IF s # <<>> /\ IsSpace(s[Len(s)]) THEN RStrip(SubSeq(s, 1, Len(s) - 1))
    ELSE s

\* str.strip()
Strip(s) == RStrip(LStrip(s))

\* str.startswith(p)
StartsWith(s, p) == Len(p) <= Len(s) /\ SubSeq(s, 1, Len(p)) = p

\* str.endswith(p)
EndsWith(s, p) ==
    Len(p) <= Len(s) /\ SubSeq(s, Len(s) - Len(p) + 1, Len(s)) = p

\* p in s
Contains(s, p) ==
    \E k \in 0..Len(s) :
        k + Len(p) <= Len(s) /\ SubSeq(s, k + 1, k + Len(p)) = p

\* str.lower(), atom by atom: every atom of the texts below that holds a
\* capital letter
LowerAtom(a) ==
    CASE a = ".APK" -> ".apk"
      [] a = ".Apk" -> ".apk"
      [] a = "10-29 12:00:00.000  1234  1234 I com.example.app: started" ->
            "10-29 12:00:00.000  1234  1234 i com.example.app: started"
      [] a = ": Connection refused" -> ": connection refused"
      [] a = "AA" -> "aa"
      [] a = "ADB error: " -> "adb error: "
      [] a = "ADB tool not found, make sure adb.exe is in the project's adb directory" ->
            "adb tool not found, make sure adb.exe is in the project's adb directory"
      [] a = "ADB version: " -> "adb version: "
      [] a = "APK file does not exist" -> "apk file does not exist"
      [] a = "APK file is invalid or corrupted" ->
            "apk file is invalid or corrupted"
      [] a = "APK file size: " -> "apk file size: "
      [] a = "APP" -> "app"
      [] a = "Already " -> "already "
      [] a = "Android Debug Bridge version 1.0.41" ->
            "android debug bridge version 1.0.41"
      [] a = "Android version: " -> "android version: "
      [] a = "BB" -> "bb"
      [] a = "Bedroom" -> "bedroom"
      [] a = "CC" -> "cc"
      [] a = "CONNECTED TO" -> "connected to"
      [] a = "Cannot connect to" -> "cannot connect to"
      [] a = "Connected to" -> "connected to"
      [] a = "DD" -> "dd"
      [] a = "EE" -> "ee"
      [] a = "FF" -> "ff"
      [] a = "Failed to connect" -> "failed to connect"
      [] a = "Failure [" -> "failure ["
      [] a = "Failure [DELETE_FAILED_INTERNAL_ERROR]" ->
            "failure [delete_failed_internal_error]"
      [] a = "Filesystem 1K-blocks Used Available" ->
            "filesystem 1k-blocks used available"
      [] a = "INSTALL_FAILED_ALREADY_EXISTS" -> "install_failed_already_exists"
      [] a = "INSTALL_FAILED_INSUFFICIENT_STORAGE" ->
            "install_failed_insufficient_storage"
      [] a = "INSTALL_FAILED_INVALID_APK" -> "install_failed_invalid_apk"
      [] a = "INSTALL_FAILED_VERSION_DOWNGRADE" ->
            "install_failed_version_downgrade"
      [] a = "Interface: " -> "interface: "
      [] a = "K" -> "k"
      [] a = "Kitchen" -> "kitchen"
      [] a = "List of devices attached" -> "list of devices attached"
      [] a = "Living" -> "living"
      [] a = "LivingRoom" -> "livingroom"
      [] a = "M" -> "m"
      [] a = "Office" -> "office"
      [] a = "P" -> "p"
      [] a = "Performing Streamed Install" -> "performing streamed install"
      [] a = "Pixel 7" -> "pixel 7"
      [] a = "Room" -> "room"
      [] a = "Success" -> "success"
      [] a = "Version 34.0.4" -> "version 34.0.4"
      [] a = "Z" -> "z"
      [] a = "[Errno 13] Permission denied" -> "[errno 13] permission denied"
      [] a = "[v] ADB service running" -> "[v] adb service running"
      [] a = "[v] APK file exists" -> "[v] apk file exists"
      [] a = "[x] ADB service abnormal" -> "[x] adb service abnormal"
      [] a = "[x] APK file does not exist" -> "[x] apk file does not exist"
      [] a = "connection failed, check that network ADB debugging is enabled on the device" ->
            "connection failed, check that network adb debugging is enabled on the device"
      [] a = "no ADB device found" -> "no adb device found"
      [] OTHER -> a

Lower(s) == [k \in 1..Len(s) |-> LowerAtom(s[k])]

\* str.split(sep) for a one-atom separator
RECURSIVE Split(_, _)
Split(s, sep) ==
    IF \E k \in 1..Len(s) : s[k] = sep
    THEN LET k == CHOOSE k \in 1..Len(s) :
                      s[k] = sep /\ \A j \in 1..(k - 1) : s[j] # sep
         IN  <<SubSeq(s, 1, k - 1)>> \o Split(SubSeq(s, k + 1, Len(s)), sep)
    ELSE <<s>>

\* sep.join(parts)
RECURSIVE Join(_, _)
Join(parts, sep) ==
    IF parts = <<>> THEN <<>>
    ELSE IF Len(parts) = 1 THEN parts[1]
    ELSE parts[1] \o <<sep>> \o Join(Tail(parts), sep)

-----------------------------------------------------------------------------
(* CommandRunner: ADBUtils.run_adb_command.                                *)

\* base_dir/adb/adb.exe when it exists
LOCAL_ADB == <<"adb/adb.exe">>

\* "未找到ADB工具，请确保项目adb目录下有adb.exe文件"
ERR_TOOL_NOT_FOUND == <<"ADB tool not found, make sure adb.exe is in the project's adb directory">>

\* "命令执行超时"
ERR_TIMEOUT == <<"command timed out">>

\* What subprocess.run does with the command line: the process exits with a
\* return code, stdout and stderr; or it outlives the timeout; or starting
\* it raises.
Exit(rc, out, err) == [kind |-> "exit", rc |-> rc, stdout |-> out, stderr |-> err]
TimeoutExpired == [kind |-> "timeout", rc |-> 0, stdout |-> <<>>, stderr |-> <<>>]
FileNotFound == [kind |-> "notfound", rc |-> 0, stdout |-> <<>>, stderr |-> <<>>]
Raised(msg) == [kind |-> "raised", rc |-> 0, stdout |-> <<>>, stderr |-> msg]

CommandResult(success, output, error) ==
    [success |-> success, output |-> output, error |-> error]

\* run_adb_command whose timeout handler leaves the error text out
run_adb_command_notext(exe, outcome) ==
    IF exe = None
    THEN CommandResult(FALSE, None, ERR_TOOL_NOT_FOUND)
    ELSE CASE outcome.kind = "exit" /\ outcome.rc = 0 ->
                  CommandResult(TRUE, Strip(outcome.stdout), None)
           [] outcome.kind = "exit" /\ outcome.rc # 0 ->
                  CommandResult(FALSE, Strip(outcome.stdout), Strip(outcome.stderr))
           [] outcome.kind = "timeout" ->
                  CommandResult(FALSE, None, None)
           [] outcome.kind = "notfound" ->
                  CommandResult(FALSE, None, ERR_TOOL_NOT_FOUND)
           [] OTHER ->
                  CommandResult(FALSE, None, outcome.stderr)

\* run_adb_command that returns stdout and stderr as the process wrote them
run_adb_command_untrimmed(exe, outcome) ==
    IF exe = None
    THEN CommandResult(FALSE, None, ERR_TOOL_NOT_FOUND)
    ELSE CASE outcome.kind = "exit" /\ outcome.rc = 0 ->
                  CommandResult(TRUE, outcome.stdout, None)
           [] outcome.kind = "exit" /\ outcome.rc # 0 ->
                  CommandResult(FALSE, outcome.stdout, outcome.stderr)
           [] outcome.kind = "timeout" ->
                  CommandResult(FALSE, None, ERR_TIMEOUT)
           [] outcome.kind = "notfound" ->
                  CommandResult(FALSE, None, ERR_TOOL_NOT_FOUND)
           [] OTHER ->
                  CommandResult(FALSE, None, outcome.stderr)

\* run_adb_command(command, timeout), given what get_adb_executable found
\* and what the subprocess did
run_adb_command(exe, outcome) ==
    IF exe = None
    THEN CommandResult(FALSE, None, ERR_TOOL_NOT_FOUND)
    ELSE CASE outcome.kind = "exit" /\ outcome.rc = 0 ->
                  CommandResult(TRUE, Strip(outcome.stdout), None)
           [] outcome.kind = "exit" /\ outcome.rc # 0 ->
                  CommandResult(FALSE, Strip(outcome.stdout), Strip(outcome.stderr))
           [] outcome.kind = "timeout" ->
                  CommandResult(FALSE, None, ERR_TIMEOUT)
           [] outcome.kind = "notfound" ->
                  CommandResult(FALSE, None, ERR_TOOL_NOT_FOUND)
           [] OTHER ->
                  CommandResult(FALSE, None, outcome.stderr)

\* `result["output"].strip()` and `result["output"].lower()` on a successful
\* result raise AttributeError when the output is None
OutputFault(r) == r.success /\ r.output = None

\* `skip_err in error_msg` on a failed result raises TypeError when the
\* error is None
ErrorFault(r) == ~r.success /\ r.error = None

\* A bridge command line: "-s <serial> <verb> <flags> <arg>"
Cmd(serial, verb, flags, arg) ==
    [s |-> serial, verb |-> verb, flags |-> flags, arg |-> arg]

\* One entry of the invocation log
Call(cmd, r) == [cmd |-> cmd, result |-> r]

-----------------------------------------------------------------------------
(* DeviceRegistry: ADBUtils.get_connected_devices.                         *)

HEADER == "List of devices attached"

Device(id, status) == [id |-> id, status |-> status]

\* the loop body without the `status == "device"` test
DeviceOfLine_anystatus(line) ==
    IF Strip(line) # <<>> /\ ~StartsWith(line, <<"*">>)
    THEN LET parts == Split(line, "\t")
         IN  IF Len(parts) >= 2
             THEN <<Device(Strip(parts[1]), Strip(parts[2]))>>
             ELSE <<>>
    ELSE <<>>

\* the body of the `for line in lines` loop: the devices one line appends
DeviceOfLine(line) ==
    IF Strip(line) # <<>> /\ ~StartsWith(line, <<"*">>)
    THEN LET parts == Split(line, "\t")
         IN  IF Len(parts) >= 2 /\ Strip(parts[2]) = <<"device">>
             THEN <<Device(Strip(parts[1]), Strip(parts[2]))>>
             ELSE <<>>
    ELSE <<>>

RECURSIVE DevicesOfLines(_)
DevicesOfLines(lines) ==
    IF lines = <<>> THEN <<>>
    ELSE DeviceOfLine(Head(lines)) \o DevicesOfLines(Tail(lines))

\* get_connected_devices() without the `if not result["success"]` return
get_connected_devices_anyexit(r) ==
    IF r.output = None THEN <<>>
    ELSE LET output == Strip(r.output)
         IN  IF output = <<>> \/ ~Contains(output, <<HEADER>>) THEN <<>>
             ELSE DevicesOfLines(Tail(Split(r.output, "\n")))

\* get_connected_devices(), given the result of run_adb_command("devices")
get_connected_devices(r) ==
    IF ~r.success THEN <<>>
    ELSE LET output == Strip(r.output)
         IN  IF output = <<>> \/ ~Contains(output, <<HEADER>>) THEN <<>>
             ELSE DevicesOfLines(Tail(Split(r.output, "\n")))

-----------------------------------------------------------------------------
(* InstallationEngine: ADBUtils.install_apk and ADBUtils._is_valid_apk.    *)

\* "APK文件不存在"
ERR_APK_NOT_FOUND == <<"APK file does not exist">>

\* f"设备 {device_id} 未连接或不可用"
ERR_NOT_CONNECTED(id) ==
    <<"device ">> \o id \o <<" is not connected or not available">>

\* "APK文件无效或已损坏"
ERR_APK_INVALID == <<"APK file is invalid or corrupted">>

\* "所有安装方法都失败了\n诊断信息:\n"
EXHAUSTED_HEADER == <<"all install methods failed", "\n", "diagnosis:", "\n">>

NoResult == CommandResult(FALSE, None, None)

\* os.path.exists(apk_path)
os_path_exists(f) == f.exists

\* _is_valid_apk without the magic-number check
is_valid_apk_nomagic(path, f) ==
    IF ~EndsWith(Lower(path), <<".apk">>) THEN FALSE
    ELSE IF ~f.exists THEN FALSE
    ELSE IF Len(f.content) = 0 THEN FALSE
    ELSE f.readable

\* _is_valid_apk(apk_path): suffix, then size, then the first bytes; every
\* exception (missing file, no permission, anything else) reads as invalid
is_valid_apk(path, f) ==
    IF ~EndsWith(Lower(path), <<".apk">>) THEN FALSE
    ELSE IF ~f.exists THEN FALSE
    ELSE IF Len(f.content) = 0 THEN FALSE
    ELSE IF ~f.readable THEN FALSE
    ELSE LET header == SubSeq(f.content, 1, IF Len(f.content) < 4
                                             THEN Len(f.content) ELSE 4)
         IN  SubSeq(header, 1, IF Len(header) < 2 THEN Len(header) ELSE 2)
                 = <<"P", "K">>

\* install_methods with the second and third entries exchanged
install_methods_swapped(id, path) ==
    << Cmd(id, "install", <<"-r", "-d">>, path),
       Cmd(id, "install", <<"-r">>, path),
       Cmd(id, "install", <<"-r", "-t", "-d">>, path),
       Cmd(id, "install", <<"-r", "-t">>, path),
       Cmd(id, "install", <<>>, path) >>

\* install_methods with a sixth command line
install_methods_six(id, path) ==
    << Cmd(id, "install", <<"-r", "-d">>, path),
       Cmd(id, "install", <<"-r", "-t", "-d">>, path),
       Cmd(id, "install", <<"-r">>, path),
       Cmd(id, "install", <<"-r", "-t">>, path),
       Cmd(id, "install", <<>>, path),
       Cmd(id, "install", <<"-g">>, path) >>

\* the five command lines of install_methods, in the order of the list
install_methods(id, path) ==
    << Cmd(id, "install", <<"-r", "-d">>, path),
       Cmd(id, "install", <<"-r", "-t", "-d">>, path),
       Cmd(id, "install", <<"-r">>, path),
       Cmd(id, "install", <<"-r", "-t">>, path),
       Cmd(id, "install", <<>>, path) >>

\* skip_errors without the insufficient-storage signature
skip_errors_short ==
    << "INSTALL_FAILED_ALREADY_EXISTS",
       "INSTALL_FAILED_INVALID_APK" >>

skip_errors ==
    << "INSTALL_FAILED_ALREADY_EXISTS",
       "INSTALL_FAILED_INVALID_APK",
       "INSTALL_FAILED_INSUFFICIENT_STORAGE" >>

\* the fast-fail test with the timeout message among the signatures
FastFail_ortimeout(error_msg) ==
    \/ error_msg = ERR_TIMEOUT
    \/ \E k \in 1..Len(skip_errors) : Contains(error_msg, <<skip_errors[k]>>)

\* any(skip_err in error_msg for skip_err in skip_errors)
FastFail(error_msg) ==
    \E k \in 1..Len(skip_errors) : Contains(error_msg, <<skip_errors[k]>>)

\* any(device['id'] == device_id for device in devices)
device_connected(ds, id) == \E k \in 1..Len(ds) : ds[k].id = id

\* install_precheck with the validity check moved before the device check
install_precheck_swapped(ds, id, path, f) ==
    IF ~is_valid_apk(path, f) THEN ERR_APK_INVALID
    ELSE IF ~device_connected(ds, id) THEN ERR_NOT_CONNECTED(id)
    ELSE None

\* the two checks that follow the enumeration, in the code's order: the
\* error install_apk returns, or None when both pass
install_precheck(ds, id, path, f) ==
    IF ~device_connected(ds, id) THEN ERR_NOT_CONNECTED(id)
    ELSE IF ~is_valid_apk(path, f) THEN ERR_APK_INVALID
    ELSE None

\* ExhaustedResult that leaves the report out of the error text
ExhaustedResult_bare(diag) ==
    CommandResult(FALSE, None, EXHAUSTED_HEADER)

\* the value install_apk returns once every method has failed
ExhaustedResult(diag) ==
    CommandResult(FALSE, None, EXHAUSTED_HEADER \o Join(diag, "\n"))

-----------------------------------------------------------------------------
(* Diagnosis pass: ADBUtils.diagnose_install_issue, ADBUtils.get_device_info *)

\* "❌ APK文件不存在"
DIAG_APK_MISSING == <<"[x] APK file does not exist">>
\* "✅ APK文件存在"
DIAG_APK_EXISTS == <<"[v] APK file exists">>
\* f"📄 APK文件大小: {size} 字节"
DIAG_APK_SIZE(size) == <<"APK file size: ", ToString(size), " bytes">>
\* "❌ 设备未连接"
DIAG_DEV_MISSING == <<"[x] device not connected">>
\* "✅ 设备已连接"
DIAG_DEV_CONNECTED == <<"[v] device connected">>
\* "未知"
UNKNOWN == <<"unknown">>
\* f"📱 设备型号: {device_info.get('model', '未知')}"
DIAG_MODEL(info) ==
    <<"device model: ">> \o (IF info.model = None THEN UNKNOWN ELSE info.model)
\* f"🤖 Android版本: {device_info.get('android_version', '未知')}"
DIAG_ANDROID(info) ==
    <<"Android version: ">> \o
        (IF info.android_version = None THEN UNKNOWN ELSE info.android_version)
\* "✅ ADB服务正常运行", f"🔧 ADB版本: {adb_version['output']}"
DIAG_ADB_OK == <<"[v] ADB service running">>
DIAG_ADB_VERSION(r) == <<"ADB version: ">> \o r.output
\* "❌ ADB服务异常", f"🔧 ADB错误: {adb_version['error']}"
DIAG_ADB_BAD == <<"[x] ADB service abnormal">>
DIAG_ADB_ERROR(r) == <<"ADB error: ">> \o r.error
\* "✅ 可以访问设备存储信息"
DIAG_STORAGE_OK == <<"[v] device storage information accessible">>
\* "⚠️ 无法访问设备存储信息"
DIAG_STORAGE_BAD == <<"[!] device storage information not accessible">>

\* the empty dict `info = {}`: a key that is absent reads None
EmptyInfo == [model |-> None, android_version |-> None, brand |-> None]

\* `if device_info:` -- a dict is true when it has a key
InfoNonEmpty(info) ==
    info.model # None \/ info.android_version # None \/ info.brand # None

\* check 1 of diagnose_install_issue: the artifact
DiagArtifact(f) ==
    IF ~os_path_exists(f) THEN <<DIAG_APK_MISSING>>
    ELSE <<DIAG_APK_EXISTS, DIAG_APK_SIZE(Len(f.content))>>

\* the lines check 2 appends once get_device_info has returned
DiagInfoLines(info) ==
    IF InfoNonEmpty(info) THEN <<DIAG_MODEL(info), DIAG_ANDROID(info)>>
    ELSE <<>>

\* check 3: the bridge version query
DiagVersion(r) ==
    IF r.success THEN <<DIAG_ADB_OK, DIAG_ADB_VERSION(r)>>
    ELSE <<DIAG_ADB_BAD, DIAG_ADB_ERROR(r)>>

\* check 4 that reports only an accessible storage
DiagStorage_silent(r) == IF r.success THEN <<DIAG_STORAGE_OK>> ELSE <<>>

\* check 4: the storage query
DiagStorage(r) == IF r.success THEN <<DIAG_STORAGE_OK>> ELSE <<DIAG_STORAGE_BAD>>

-----------------------------------------------------------------------------
(* ConnectionController: ADBUtils.connect_device.                          *)

\* "连接失败，请检查设备是否已开启网络ADB调试"
ERR_CONNECT_FAILED == <<"connection failed, check that network ADB debugging is enabled on the device">>

\* `"connected to" in output or "already connected to" in output`
SaysConnected(output) ==
    Contains(output, <<"connected to">>)
        \/ Contains(output, <<"already ", "connected to">>)

\* the failure test without its second phrase
SaysFailed_cannot(output) == Contains(output, <<"cannot connect to">>)

\* `"cannot connect to" in output or "failed to connect" in output`
SaysFailed(output) ==
    Contains(output, <<"cannot connect to">>)
        \/ Contains(output, <<"failed to connect">>)

\* the loop with `==` in place of `in`
AddressListed_exact(ds, ip) == \E k \in 1..Len(ds) : ds[k].id = ip

\* the loop `for device in devices: if ip_address in device['id']`
AddressListed(ds, ip) == \E k \in 1..Len(ds) : Contains(ds[k].id, ip)

\* the value the ambiguous branch returns after the enumeration
connect_verify(r, ds, ip) ==
    IF AddressListed(ds, ip) THEN r
    ELSE CommandResult(FALSE, r.output, ERR_CONNECT_FAILED)

-----------------------------------------------------------------------------
(* The environment of one core call: arguments, files, bridge behaviour.   *)

\* device ids and addresses, cut into atoms where one is a substring of another
ID_5 == <<"192.168.1.", "5", ":", "5555">>
ID_50 == <<"192.168.1.", "5", "0", ":", "5555">>
ID_EMU == <<"emulator-5554">>
ADDR_5 == <<"192.168.1.", "5">>

\* one line of the enumeration listing
DevLine(id, status) == id \o <<"\t", status>>
CommentLine == <<"*", " ", "daemon started successfully">>

\* the listing `adb devices` prints: the header, the lines, a blank line
Listing(lines) == Join(<< <<HEADER>> >> \o lines \o << <<>>, <<>> >>, "\n")

DevicesStdouts ==
    { Listing(<<>>),
      Listing(<<DevLine(ID_5, "device")>>),
      Listing(<<DevLine(ID_50, "device"), DevLine(ID_EMU, "offline")>>),
      Listing(<<CommentLine, DevLine(ID_EMU, "device"),
                DevLine(ID_5, "unauthorized")>>),
      <<>> }

DevicesOutcomes ==
    { Exit(0, out, <<>>) : out \in DevicesStdouts }
        \cup { Exit(1, <<>>, <<"error: cannot connect to daemon", "\n">>),
               Exit(1, Listing(<<DevLine(ID_5, "device")>>),
                    <<"error: protocol fault", "\n">>),
               TimeoutExpired }

InstallFailure(code) ==
    Exit(1, <<"Performing Streamed Install", "\n">>,
         <<"adb: failed to install: ", "Failure [", code, "]", "\n">>)

InstallOutcomes ==
    { Exit(0, <<"Performing Streamed Install", "\n", "Success", "\n">>, <<>>),
      InstallFailure("INSTALL_FAILED_VERSION_DOWNGRADE"),
      InstallFailure("INSTALL_FAILED_ALREADY_EXISTS"),
      InstallFailure("INSTALL_FAILED_INVALID_APK"),
      InstallFailure("INSTALL_FAILED_INSUFFICIENT_STORAGE"),
      TimeoutExpired }

PropOutcomes(value) ==
    { Exit(0, <<value, "\n">>, <<>>),
      Exit(1, <<>>, <<"error: device offline", "\n">>) }

VersionOutcomes ==
    { Exit(0, <<"Android Debug Bridge version 1.0.41", "\n",
                "Version 34.0.4", "\n">>, <<>>),
      Exit(1, <<>>, <<"error: cannot connect to daemon", "\n">>),
      TimeoutExpired }

StorageOutcomes ==
    { Exit(0, <<"Filesystem 1K-blocks Used Available", "\n">>, <<>>),
      Exit(1, <<>>, <<"error: device offline", "\n">>) }

ConnectOutcomes(ip) ==
    { Exit(0, <<"connected to", " ">> \o ip \o <<"\n">>, <<>>),
      Exit(0, <<"already ", "connected to", " ">> \o ip \o <<"\n">>, <<>>),
      Exit(0, <<"Connected to", " ">> \o ip \o <<"\n">>, <<>>),
      Exit(0, <<"cannot connect to", " ">> \o ip \o <<": Connection refused">>, <<>>),
      Exit(0, <<"Cannot connect to", " ">> \o ip \o <<": Connection refused">>, <<>>),
      Exit(0, <<"CONNECTED TO", " ">> \o ip \o <<"\n">>, <<>>),
      Exit(0, <<"failed to connect", " to ">> \o ip, <<>>),
      Exit(0, <<"Failed to connect", " to ">> \o ip, <<>>),
      Exit(1, <<"failed to connect", " to ">> \o ip, <<>>),
      Exit(0, <<"*", " ", "daemon started successfully", "\n">>, <<>>),
      Exit(0, <<>>, <<>>),
      Exit(1, <<>>, <<"error: cannot connect to daemon", "\n">>),
      TimeoutExpired }

File(exists, readable, content) ==
    [exists |-> exists, readable |-> readable, content |-> content]

FileStates ==
    { File(FALSE, FALSE, <<>>),
      File(TRUE, TRUE, <<>>),
      File(TRUE, TRUE, <<"P", "K", "x03", "x04", "data">>),
      File(TRUE, TRUE, <<"P">>),
      File(TRUE, TRUE, <<"M", "Z", "x90", "x00">>),
      File(TRUE, FALSE, <<"P", "K", "x03", "x04">>) }

Paths == { <<"app", ".apk">>, <<"APP", ".APK">>, <<"app", ".zip">> }

-----------------------------------------------------------------------------
(* One call of a public core operation, a step per bridge invocation.      *)

CoreIdle ==
    /\ devices = <<>>
    /\ i = 0
    /\ result = NoResult
    /\ diagnosis = <<>>
    /\ device_info = EmptyInfo
    /\ calls = <<>>
    /\ ret = NoResult
    /\ log_file = None

\* who sets a refresh timer: __init__ (line 328), on_connect_finished
\* (line 615) and on_disconnect_finished (line 729)
TimerSources == {"startup", "connect", "disconnect"}

UiInit ==
    /\ ui_blocking = <<>>
    /\ current_worker = 0
    /\ install_workers = <<>>
    /\ workers = {}
    /\ next_id = 1
    /\ selected = None
    /\ device_list = <<>>
    /\ timers = [s \in TimerSources |-> IF s = "startup" THEN 1 ELSE 0]
    /\ last = [op |-> "none", busy |-> FALSE, started |-> 0]
    /\ rejected = {}

ParseIdle ==
    /\ p_in = <<>>
    /\ p_out = [done |-> FALSE, devices |-> <<>>]

\* no DeviceManager call in progress
DmIdle ==
    /\ cfg = [exists |-> FALSE, readable |-> FALSE, lines |-> <<>>]
    /\ mac_to_name = <<>>
    /\ prev_map = <<>>
    /\ loads = 0
    /\ dm_pc = "idle"
    /\ dm_op = "none"
    /\ dm_arg = None
    /\ dm_mac = None
    /\ dm_name = None
    /\ dm_usable = <<>>
    /\ scans = <<>>

\* no runner check in progress
RunIdle ==
    /\ r_in = [exe |-> None, outcome |-> TimeoutExpired]
    /\ r_out = [done |-> FALSE, result |-> NoResult]
    /\ r_execs = 0
    /\ adb_file = FALSE
    /\ r_log = <<>>

CoreInit ==
    /\ pc = "start"
    /\ op \in {"install", "connect"}
    /\ adb_exe \in {LOCAL_ADB, None}
    /\ IF op = "install"
       THEN /\ device_id \in {ID_5, ID_EMU}
            /\ apk_path \in Paths
            /\ fs \in FileStates
            /\ ip_address = None
       ELSE /\ device_id = None
            /\ apk_path = None
            /\ fs = File(FALSE, FALSE, <<>>)
            /\ ip_address \in {ID_5, ADDR_5}
    /\ CoreIdle

Return(value) ==
    /\ ret' = value
    /\ pc' = "done"

\* install_apk without the existence check of lines 120-121
InstallStart_unchecked ==
    /\ pc = "start"
    /\ op = "install"
    /\ pc' = "i_devices"
    /\ UNCHANGED <<uiVars, parseVars, dmVars, runVars>>
    /\ UNCHANGED <<log_file, op, adb_exe, device_id, apk_path, fs, ip_address, devices,
                   i, result, diagnosis, device_info, calls, ret>>

\* install_apk, lines 120-121: the artifact must exist
InstallStart ==
    /\ pc = "start"
    /\ op = "install"
    /\ IF ~os_path_exists(fs)
       THEN Return(CommandResult(FALSE, None, ERR_APK_NOT_FOUND))
       ELSE pc' = "i_devices" /\ ret' = ret
    /\ UNCHANGED <<uiVars, parseVars, dmVars, runVars>>
    /\ UNCHANGED <<log_file, op, adb_exe, device_id, apk_path, fs, ip_address, devices,
                   i, result, diagnosis, device_info, calls>>

\* install_apk, lines 123-131: enumerate, then the device and validity checks
InstallEnumerate ==
    /\ pc = "i_devices"
    /\ \E o \in DevicesOutcomes :
          LET r == run_adb_command(adb_exe, o)
              ds == get_connected_devices(r)
              err == install_precheck(ds, device_id, apk_path, fs)
          IN  /\ calls' = Append(calls, Call(Cmd(None, "devices", <<>>, None), r))
              /\ devices' = ds
              /\ IF OutputFault(r)
                 THEN pc' = "fault" /\ i' = i /\ ret' = ret
                 ELSE IF err # None
                 THEN Return(CommandResult(FALSE, None, err)) /\ i' = i
                 ELSE pc' = "i_strategy" /\ i' = 1 /\ ret' = ret
    /\ UNCHANGED <<uiVars, parseVars, dmVars, runVars>>
    /\ UNCHANGED <<log_file, op, adb_exe, device_id, apk_path, fs, ip_address,
                   result, diagnosis, device_info>>

\* install_apk, lines 151-171: one turn of the loop over install_methods
InstallStrategy ==
    /\ pc = "i_strategy"
    /\ \E o \in InstallOutcomes :
          LET methods == install_methods(device_id, apk_path)
              r == run_adb_command(adb_exe, o)
          IN  /\ calls' = Append(calls, Call(methods[i], r))
              /\ result' = r
              /\ IF ErrorFault(r)
                 THEN pc' = "fault" /\ i' = i /\ ret' = ret
                 ELSE IF r.success
                 THEN Return(r) /\ i' = i
                 ELSE IF FastFail(r.error)
                 THEN Return(CommandResult(FALSE, None, r.error)) /\ i' = i
                 ELSE IF i < Len(methods)
                 THEN pc' = pc /\ i' = i + 1 /\ ret' = ret
                 ELSE pc' = "d_devices" /\ i' = i /\ ret' = ret
    /\ UNCHANGED <<uiVars, parseVars, dmVars, runVars>>
    /\ UNCHANGED <<log_file, op, adb_exe, device_id, apk_path, fs, ip_address, devices,
                   diagnosis, device_info>>


\* diagnose_install_issue, lines 267-284: the artifact check, then the
\* enumeration of the connectivity check
DiagnoseDevices ==
    /\ pc = "d_devices"
    /\ \E o \in DevicesOutcomes :
          LET r == run_adb_command(adb_exe, o)
              ds == get_connected_devices(r)
          IN  /\ calls' = Append(calls, Call(Cmd(None, "devices", <<>>, None), r))
              /\ devices' = ds
              /\ IF OutputFault(r)
                 THEN /\ diagnosis' = DiagArtifact(fs)
                      /\ pc' = "fault"
                 ELSE IF ~device_connected(ds, device_id)
                 THEN /\ diagnosis' = DiagArtifact(fs) \o <<DIAG_DEV_MISSING>>
                      /\ pc' = "d_version"
                 ELSE /\ diagnosis' = DiagArtifact(fs) \o <<DIAG_DEV_CONNECTED>>
                      /\ pc' = "d_model"
    /\ device_info' = EmptyInfo
    /\ UNCHANGED <<uiVars, parseVars, dmVars, runVars>>
    /\ UNCHANGED <<log_file, op, adb_exe, device_id, apk_path, fs, ip_address, i,
                   result, ret>>

\* get_device_info, lines 101-103
GetPropModel ==
    /\ pc = "d_model"
    /\ \E o \in PropOutcomes("Pixel 7") :
          LET r == run_adb_command(adb_exe, o)
          IN  /\ calls' = Append(calls,
                    Call(Cmd(device_id, "shell", <<"getprop">>,
                             <<"ro.product.model">>), r))
              /\ device_info' =
                    IF r.success THEN [device_info EXCEPT !.model = r.output]
                    ELSE device_info
    /\ pc' = "d_release"
    /\ UNCHANGED <<uiVars, parseVars, dmVars, runVars>>
    /\ UNCHANGED <<log_file, op, adb_exe, device_id, apk_path, fs, ip_address, devices,
                   i, result, diagnosis, ret>>

\* get_device_info, lines 106-108
GetPropRelease ==
    /\ pc = "d_release"
    /\ \E o \in PropOutcomes("14") :
          LET r == run_adb_command(adb_exe, o)
          IN  /\ calls' = Append(calls,
                    Call(Cmd(device_id, "shell", <<"getprop">>,
                             <<"ro.build.version.release">>), r))
              /\ device_info' =
                    IF r.success
                    THEN [device_info EXCEPT !.android_version = r.output]
                    ELSE device_info
    /\ pc' = "d_brand"
    /\ UNCHANGED <<uiVars, parseVars, dmVars, runVars>>
    /\ UNCHANGED <<log_file, op, adb_exe, device_id, apk_path, fs, ip_address, devices,
                   i, result, diagnosis, ret>>

\* get_device_info, lines 111-115: the dict is returned; called from
\* diagnose_install_issue, lines 287-289 append its two lines
GetPropBrand ==
    /\ pc = "d_brand"
    /\ \E o \in PropOutcomes("google") :
          LET r == run_adb_command(adb_exe, o)
              info == IF r.success THEN [device_info EXCEPT !.brand = r.output]
                      ELSE device_info
          IN  /\ calls' = Append(calls,
                    Call(Cmd(device_id, "shell", <<"getprop">>,
                             <<"ro.product.brand">>), r))
              /\ device_info' = info
              /\ diagnosis' = IF op = "device_info" THEN diagnosis
                              ELSE diagnosis \o DiagInfoLines(info)
    /\ pc' = IF op = "device_info" THEN "done" ELSE "d_version"
    /\ UNCHANGED <<uiVars, parseVars, dmVars, runVars>>
    /\ UNCHANGED <<log_file, op, adb_exe, device_id, apk_path, fs, ip_address, devices,
                   i, result, ret>>

\* diagnose_install_issue, lines 292-298
DiagnoseVersion ==
    /\ pc = "d_version"
    /\ \E o \in VersionOutcomes :
          LET r == run_adb_command(adb_exe, o)
          IN  /\ calls' = Append(calls, Call(Cmd(None, "version", <<>>, None), r))
              /\ diagnosis' = diagnosis \o DiagVersion(r)
    /\ pc' = "d_storage"
    /\ UNCHANGED <<uiVars, parseVars, dmVars, runVars>>
    /\ UNCHANGED <<log_file, op, adb_exe, device_id, apk_path, fs, ip_address, devices,
                   i, result, device_info, ret>>

\* diagnose_install_issue, lines 301-307: the report is returned; called
\* from install_apk, lines 175-178 turn it into the failure result
DiagnoseStorage ==
    /\ pc = "d_storage"
    /\ \E o \in StorageOutcomes :
          LET r == run_adb_command(adb_exe, o)
              diag == diagnosis \o DiagStorage(r)
          IN  /\ calls' = Append(calls,
                    Call(Cmd(device_id, "shell", <<"df">>, <<"/data">>), r))
              /\ diagnosis' = diag
              /\ pc' = "done"
              /\ ret' = IF op = "install" THEN ExhaustedResult(diag) ELSE ret
    /\ UNCHANGED <<uiVars, parseVars, dmVars, runVars>>
    /\ UNCHANGED <<log_file, op, adb_exe, device_id, apk_path, fs, ip_address, devices,
                   i, result, device_info>>

\* connect_device that reads the output text before the success flag
ConnectRun_textfirst ==
    /\ pc = "start"
    /\ op = "connect"
    /\ \E o \in ConnectOutcomes(ip_address) :
          LET r == run_adb_command(adb_exe, o)
          IN  /\ calls' = Append(calls, Call(Cmd(None, "connect", <<>>, ip_address), r))
              /\ result' = r
              /\ IF r.output # None /\ SaysConnected(Lower(r.output))
                 THEN Return(r)
                 ELSE IF r.output # None /\ SaysFailed(Lower(r.output))
                 THEN Return(CommandResult(FALSE, r.output, ERR_CONNECT_FAILED))
                 ELSE IF ~r.success THEN Return(r)
                 ELSE pc' = "c_verify" /\ ret' = ret
    /\ UNCHANGED <<uiVars, parseVars, dmVars, runVars>>
    /\ UNCHANGED <<log_file, op, adb_exe, device_id, apk_path, fs, ip_address, devices,
                   i, diagnosis, device_info>>

\* connect_device, lines 231-243 and 256: the connect command and what its
\* output says
ConnectRun ==
    /\ pc = "start"
    /\ op = "connect"
    /\ \E o \in ConnectOutcomes(ip_address) :
          LET r == run_adb_command(adb_exe, o)
          IN  /\ calls' = Append(calls, Call(Cmd(None, "connect", <<>>, ip_address), r))
              /\ result' = r
              /\ IF OutputFault(r) THEN pc' = "fault" /\ ret' = ret
                 ELSE IF ~r.success THEN Return(r)
                 ELSE IF SaysConnected(Lower(r.output)) THEN Return(r)
                 ELSE IF SaysFailed(Lower(r.output))
                 THEN Return(CommandResult(FALSE, r.output, ERR_CONNECT_FAILED))
                 ELSE pc' = "c_verify" /\ ret' = ret
    /\ UNCHANGED <<uiVars, parseVars, dmVars, runVars>>
    /\ UNCHANGED <<log_file, op, adb_exe, device_id, apk_path, fs, ip_address, devices,
                   i, diagnosis, device_info>>

\* connect_device, lines 244-254: the ambiguous output, settled by an
\* enumeration
ConnectVerify ==
    /\ pc = "c_verify"
    /\ \E o \in DevicesOutcomes :
          LET r == run_adb_command(adb_exe, o)
              ds == get_connected_devices(r)
          IN  /\ calls' = Append(calls, Call(Cmd(None, "devices", <<>>, None), r))
              /\ devices' = ds
              /\ IF OutputFault(r) THEN pc' = "fault" /\ ret' = ret
                 ELSE Return(connect_verify(result, ds, ip_address))
    /\ UNCHANGED <<uiVars, parseVars, dmVars, runVars>>
    /\ UNCHANGED <<log_file, op, adb_exe, device_id, apk_path, fs, ip_address,
                   i, result, diagnosis, device_info>>

CoreNext ==
    \/ InstallStart
    \/ InstallEnumerate
    \/ InstallStrategy
    \/ DiagnoseDevices
    \/ GetPropModel
    \/ GetPropRelease
    \/ GetPropBrand
    \/ DiagnoseVersion
    \/ DiagnoseStorage
    \/ ConnectRun
    \/ ConnectVerify

Init == CoreInit /\ UiInit /\ ParseIdle /\ DmIdle /\ RunIdle

Spec == Init /\ [][CoreNext]_vars

\* every bridge invocation returns (subprocess.run has a timeout), so an
\* operation that has a step to take takes it
SpecFair == Init /\ [][CoreNext]_vars /\ WF_vars(CoreNext)

\* diagnose_install_issue(device_id, apk_path) called on its own, as
\* test_install.py calls it: any artifact, any device
InitDiag ==
    /\ pc = "d_devices"
    /\ op = "diagnose"
    /\ adb_exe \in {LOCAL_ADB, None}
    /\ device_id \in {ID_5, ID_EMU}
    /\ apk_path \in Paths
    /\ fs \in FileStates
    /\ ip_address = None
    /\ CoreIdle
    /\ UiInit
    /\ ParseIdle
    /\ DmIdle
    /\ RunIdle

DiagNext ==
    \/ DiagnoseDevices
    \/ GetPropModel
    \/ GetPropRelease
    \/ GetPropBrand
    \/ DiagnoseVersion
    \/ DiagnoseStorage

SpecDiag == InitDiag /\ [][DiagNext]_vars

\* get_connected_devices(), get_device_info(device_id),
\* disconnect_device(device_id), uninstall_app, clear_app_cache,
\* force_stop_app and pull_logs called on their own
InitSimple ==
    /\ op \in {"list_devices", "device_info", "disconnect", "uninstall",
               "clear_cache", "force_stop", "pull_logs"}
    /\ pc = IF op = "device_info" THEN "d_model" ELSE "start"
    /\ adb_exe \in {LOCAL_ADB, None}
    /\ device_id \in IF op = "list_devices" THEN {None} ELSE {ID_5, ID_EMU}
    /\ apk_path = None
    /\ fs = File(FALSE, FALSE, <<>>)
    /\ ip_address = None
    /\ CoreIdle
    /\ UiInit
    /\ ParseIdle
    /\ DmIdle
    /\ RunIdle

\* get_connected_devices(), lines 66-93, as a public operation: the list is
\* returned in `devices`
EnumerateDevices ==
    /\ pc = "start"
    /\ op = "list_devices"
    /\ \E o \in DevicesOutcomes :
          LET r == run_adb_command(adb_exe, o)
          IN  /\ calls' = Append(calls, Call(Cmd(None, "devices", <<>>, None), r))
              /\ IF OutputFault(r)
                 THEN pc' = "fault" /\ devices' = devices
                 ELSE pc' = "done" /\ devices' = get_connected_devices(r)
    /\ UNCHANGED <<uiVars, parseVars, dmVars, runVars>>
    /\ UNCHANGED <<log_file, op, adb_exe, device_id, apk_path, fs, ip_address, i, result,
                   diagnosis, device_info, ret>>

DisconnectOutcomes(id) ==
    { Exit(0, <<"disconnected ">> \o id \o <<"\n">>, <<>>),
      Exit(1, <<>>, <<"error: no such device '">> \o id \o <<"'", "\n">>),
      TimeoutExpired }

\* disconnect_device(device_id), lines 259-262
Disconnect ==
    /\ pc = "start"
    /\ op = "disconnect"
    /\ \E o \in DisconnectOutcomes(device_id) :
          LET r == run_adb_command(adb_exe, o)
          IN  /\ calls' = Append(calls,
                    Call(Cmd(None, "disconnect", <<>>, device_id), r))
              /\ result' = r
              /\ Return(r)
    /\ UNCHANGED <<uiVars, parseVars, dmVars, runVars>>
    /\ UNCHANGED <<log_file, op, adb_exe, device_id, apk_path, fs, ip_address, devices,
                   i, diagnosis, device_info>>

-----------------------------------------------------------------------------
(* ConcurrencyGuard: MainWindow's worker bookkeeping.  Every handler and   *)
(* every completion callback runs on the UI thread, one at a time; a       *)
(* worker thread only runs its operation and emits `finished`, which Qt    *)
(* queues to the UI thread (one queued call per connected slot).           *)

MaxWorkers == 3

\* the devices one refresh lists at most
MaxListed == 2

\* the operations that go through the current_worker slot
SlotKinds == {"refresh", "my_devices", "connect", "disconnect",
              "clear_cache", "kill_process", "uninstall"}

\* the operations started with start_worker(worker, callback)
StartWorkerKinds == SlotKinds \ {"refresh", "my_devices"}

Worker(id, kind, state, success) ==
    [id |-> id, kind |-> kind, state |-> state, success |-> success]

UiIdleCore ==
    /\ pc = "done"
    /\ op = "none"
    /\ adb_exe = LOCAL_ADB
    /\ device_id = None
    /\ apk_path = None
    /\ fs = File(FALSE, FALSE, <<>>)
    /\ ip_address = None
    /\ CoreIdle

\* `self.current_worker is not None`
SlotBusy_never == FALSE

SlotBusy == current_worker # 0

Handled(kind, busy, started) ==
    last' = [op |-> kind, busy |-> busy, started |-> started]

\* refresh_devices / show_my_devices: the slot is tested first; the worker
\* is constructed, started and stored only when the slot is free
StartInline(kind) ==
    IF SlotBusy
    THEN /\ Handled(kind, TRUE, 0)
         /\ UNCHANGED <<current_worker, workers, next_id, rejected>>
    ELSE /\ next_id <= MaxWorkers
         /\ workers' = workers \cup {Worker(next_id, kind, "running", FALSE)}
         /\ current_worker' = next_id
         /\ next_id' = next_id + 1
         /\ Handled(kind, FALSE, next_id)
         /\ UNCHANGED rejected

\* start_worker(worker, callback) on a worker the caller has constructed
start_worker(kind) ==
    /\ next_id <= MaxWorkers
    /\ next_id' = next_id + 1
    /\ IF SlotBusy
       THEN /\ Handled(kind, TRUE, 0)
            /\ rejected' = rejected \cup {next_id}
            /\ UNCHANGED <<current_worker, workers>>
       ELSE /\ current_worker' = next_id
            /\ workers' = workers \cup {Worker(next_id, kind, "running", FALSE)}
            /\ Handled(kind, FALSE, next_id)
            /\ UNCHANGED rejected

\* "未发现ADB连接的设备", the one item of the list when no device was found
NO_DEVICE_ITEM == <<"no ADB device found">>

\* f"{device_name} - {device_id} ({status})", line 398; " - " is one atom
DeviceItem(name, id, status) ==
    name \o <<" - ">> \o id \o <<" ", "(">> \o status \o <<")">>

\* select_device, lines 486-493: the text between the first and the second
\* " - " up to its first space, or the whole text up to its first space
\* when it holds no " - "
select_device(item_text) ==
    LET parts == Split(item_text, " - ")
    IN  IF Len(parts) > 1
        THEN Split(parts[2], " ")[1]
        ELSE Split(item_text, " ")[1]

\* the negation of `if not self.device_id`
DeviceChosen == selected # None /\ selected # <<>>

\* select_device(item): an item of the list is clicked
SelectDevice ==
    /\ \E k \in 1..Len(device_list) :
          selected' = select_device(device_list[k])
    /\ UNCHANGED <<current_worker, install_workers, workers, next_id, timers,
                   last, rejected>>
    /\ ui_blocking' = <<>>
    /\ UNCHANGED device_list
    /\ UNCHANGED <<coreVars, parseVars, dmVars, runVars>>

\* refresh_devices(), called from the button
RefreshDevices ==
    /\ StartInline("refresh")
    /\ UNCHANGED <<install_workers, selected, timers>>
    /\ ui_blocking' = <<>>
    /\ UNCHANGED device_list
    /\ UNCHANGED <<coreVars, parseVars, dmVars, runVars>>

\* refresh_devices(), called when a QTimer.singleShot fires
TimerRefresh ==
    /\ \E s \in TimerSources :
          /\ timers[s] > 0
          /\ timers' = [timers EXCEPT ![s] = @ - 1]
    /\ StartInline("refresh")
    /\ UNCHANGED <<install_workers, selected>>
    /\ ui_blocking' = <<>>
    /\ UNCHANGED device_list
    /\ UNCHANGED <<coreVars, parseVars, dmVars, runVars>>

\* show_my_devices()
ShowMyDevices ==
    /\ StartInline("my_devices")
    /\ UNCHANGED <<install_workers, selected, timers>>
    /\ ui_blocking' = <<>>
    /\ UNCHANGED device_list
    /\ UNCHANGED <<coreVars, parseVars, dmVars, runVars>>

\* connect_ip() and connect_device_from_list(): an address was given
ConnectIp ==
    /\ start_worker("connect")
    /\ UNCHANGED <<install_workers, selected, timers>>
    /\ ui_blocking' = <<>>
    /\ UNCHANGED device_list
    /\ UNCHANGED <<coreVars, parseVars, dmVars, runVars>>

\* disconnect_device(): a device is selected
DisconnectDevice ==
    /\ DeviceChosen
    /\ start_worker("disconnect")
    /\ UNCHANGED <<install_workers, selected, timers>>
    /\ ui_blocking' = <<>>
    /\ UNCHANGED device_list
    /\ UNCHANGED <<coreVars, parseVars, dmVars, runVars>>

\* clear_cache(), kill_process(), uninstall_app(): a device is selected and
\* a package name was given
PackageOperation ==
    /\ DeviceChosen
    /\ \E kind \in {"clear_cache", "kill_process", "uninstall"} :
          start_worker(kind)
    /\ UNCHANGED <<install_workers, selected, timers>>
    /\ ui_blocking' = <<>>
    /\ UNCHANGED device_list
    /\ UNCHANGED <<coreVars, parseVars, dmVars, runVars>>

\* install_app() through start_worker, as the single-flight operations go
InstallApp_single ==
    /\ DeviceChosen
    /\ start_worker("install")
    /\ install_workers' =
          IF SlotBusy THEN install_workers ELSE Append(install_workers, next_id)
    /\ UNCHANGED <<selected, timers>>
    /\ ui_blocking' = <<>>
    /\ UNCHANGED device_list
    /\ UNCHANGED <<coreVars, parseVars, dmVars, runVars>>

\* install_app(): a device is selected and a file was chosen
InstallApp ==
    /\ DeviceChosen
    /\ next_id <= MaxWorkers
    /\ workers' = workers \cup {Worker(next_id, "install", "running", FALSE)}
    /\ install_workers' = Append(install_workers, next_id)
    /\ next_id' = next_id + 1
    /\ Handled("install", FALSE, next_id)
    /\ UNCHANGED <<current_worker, selected, timers, rejected>>
    /\ ui_blocking' = <<>>
    /\ UNCHANGED device_list
    /\ UNCHANGED <<coreVars, parseVars, dmVars, runVars>>

\* a worker's run(): the operation returns (or raises, which run() turns
\* into a failure result) and `finished` is emitted
WorkerRun ==
    /\ \E w \in workers, ok \in BOOLEAN :
          /\ w.state = "running"
          /\ workers' = (workers \ {w})
                            \cup {Worker(w.id, w.kind, "emitted", ok)}
    /\ UNCHANGED <<current_worker, install_workers, next_id, selected,
                   timers, last, rejected, ui_blocking>>
    /\ UNCHANGED device_list
    /\ UNCHANGED <<coreVars, parseVars, dmVars, runVars>>

\* the `for device in devices` loop of on_refresh_devices_finished without
\* the get_device_name call
NameLookups_none(n) == <<>>

\* the `for device in devices` loop of on_refresh_devices_finished, lines
\* 392-398: get_device_name(device_id), that is one `arp -a`, per device
NameLookups(n) == [k \in 1..n |-> "arp -a"]

\* the k-th device a refresh lists
UiDevice(k) == IF k = 1 THEN ID_5 ELSE IF k = 2 THEN ID_EMU ELSE ID_50

\* what get_device_name may return for the device: its id, or for the
\* first a name of the mapping file, which may hold " - "
UiNames(id) ==
    IF id = ID_5 THEN {ID_5, <<"Living", " - ", "Room">>} ELSE {id}

\* the items on_refresh_devices_finished puts in the cleared list, lines
\* 388-402: one per device, or the one item that says there is none
RefreshItems(ids, names) ==
    IF ids = <<>> THEN <<NO_DEVICE_ITEM>>
    ELSE [k \in 1..Len(ids) |-> DeviceItem(names[k], ids[k], <<"device">>)]

\* on_refresh_devices_finished(devices) and on_show_my_devices_finished():
\* the refresh callback resolves the name of each of the n devices the
\* worker emitted (none when the worker raised) and fills the list; the
\* `finally` clears the slot
OnListFinished ==
    /\ \E w \in workers :
          /\ w.kind \in {"refresh", "my_devices"}
          /\ w.state = "emitted"
          /\ workers' = workers \ {w}
          /\ \E n \in 0..MaxListed :
                /\ (w.kind # "refresh" \/ ~w.success) => n = 0
                /\ ui_blocking' = NameLookups(n)
                /\ IF w.kind = "refresh"
                   THEN \E names \in [1..n -> UNION {UiNames(UiDevice(k)) : k \in 1..n}] :
                            /\ \A k \in 1..n : names[k] \in UiNames(UiDevice(k))
                            /\ device_list' =
                                   RefreshItems([k \in 1..n |-> UiDevice(k)], names)
                   ELSE device_list' = device_list
    /\ current_worker' = 0
    /\ UNCHANGED <<install_workers, next_id, selected, timers, last, rejected>>
    /\ UNCHANGED <<coreVars, parseVars, dmVars, runVars>>

\* the callback given to start_worker: on_connect_finished,
\* on_disconnect_finished, on_clear_cache_finished, on_kill_process_finished,
\* on_uninstall_finished
OnCallback ==
    /\ \E w \in workers :
          /\ w.kind \in StartWorkerKinds
          /\ w.state = "emitted"
          /\ workers' = (workers \ {w})
                            \cup {Worker(w.id, w.kind, "called", w.success)}
          /\ timers' =
                IF w.kind = "disconnect" \/ (w.kind = "connect" /\ w.success)
                THEN [timers EXCEPT ![w.kind] = @ + 1]
                ELSE timers
    /\ UNCHANGED <<current_worker, install_workers, next_id, selected, last,
                   rejected>>
    /\ ui_blocking' = <<>>
    /\ UNCHANGED device_list
    /\ UNCHANGED <<coreVars, parseVars, dmVars, runVars>>

\* on_worker_finished() that leaves current_worker as it is
OnWorkerFinished_keep ==
    /\ \E w \in workers :
          /\ w.kind \in StartWorkerKinds
          /\ w.state = "called"
          /\ workers' = workers \ {w}
    /\ UNCHANGED <<current_worker, install_workers, next_id, selected, timers,
                   last, rejected>>
    /\ ui_blocking' = <<>>
    /\ UNCHANGED device_list
    /\ UNCHANGED <<coreVars, parseVars, dmVars, runVars>>

\* on_worker_finished(): the second slot start_worker connects
OnWorkerFinished ==
    /\ \E w \in workers :
          /\ w.kind \in StartWorkerKinds
          /\ w.state = "called"
          /\ workers' = workers \ {w}
    /\ current_worker' = 0
    /\ UNCHANGED <<install_workers, next_id, selected, timers, last, rejected>>
    /\ ui_blocking' = <<>>
    /\ UNCHANGED device_list
    /\ UNCHANGED <<coreVars, parseVars, dmVars, runVars>>

\* `self.install_workers.remove(worker)` dropping the head of the list
remove_first(list, id) == Tail(list)

\* `if worker in self.install_workers: self.install_workers.remove(worker)`
remove_worker(list, id) ==
    LET Other(x) == x # id
    IN  SelectSeq(list, Other)

\* on_install_finished(result, worker)
OnInstallFinished ==
    /\ \E w \in workers :
          /\ w.kind = "install"
          /\ w.state = "emitted"
          /\ workers' = workers \ {w}
          /\ install_workers' = remove_worker(install_workers, w.id)
    /\ UNCHANGED <<current_worker, next_id, selected, timers, last, rejected>>
    /\ ui_blocking' = <<>>
    /\ UNCHANGED device_list
    /\ UNCHANGED <<coreVars, parseVars, dmVars, runVars>>

\* take_screenshot(), lines 800-839: the capture, the pull and the removal
\* are run_adb_command calls made by the handler itself; a failed call ends
\* the handler, and so does a screenshot directory that cannot be created
TakeScreenshot ==
    /\ DeviceChosen
    /\ \E n \in 0..3 : ui_blocking' = [k \in 1..n |-> "adb"]
    /\ Handled("screenshot", FALSE, 0)
    /\ UNCHANGED <<current_worker, install_workers, workers, next_id,
                   selected, timers, rejected>>
    /\ UNCHANGED device_list
    /\ UNCHANGED <<coreVars, parseVars, dmVars, runVars>>

UiNext ==
    \/ TakeScreenshot
    \/ SelectDevice
    \/ RefreshDevices
    \/ TimerRefresh
    \/ ShowMyDevices
    \/ ConnectIp
    \/ DisconnectDevice
    \/ PackageOperation
    \/ InstallApp
    \/ WorkerRun
    \/ OnListFinished
    \/ OnCallback
    \/ OnWorkerFinished
    \/ OnInstallFinished

InitUI == UiIdleCore /\ UiInit /\ ParseIdle /\ DmIdle /\ RunIdle

SpecUI == InitUI /\ [][UiNext]_vars

\* a started worker thread runs its operation to the end (every blocking
\* call it makes has a timeout) and emits `finished`; the event loop
\* delivers every queued slot call
SpecUIFair ==
    /\ InitUI
    /\ [][UiNext]_vars
    /\ WF_vars(WorkerRun)
    /\ WF_vars(OnListFinished)
    /\ WF_vars(OnCallback)
    /\ WF_vars(OnWorkerFinished)
    /\ WF_vars(OnInstallFinished)

-----------------------------------------------------------------------------
(* listDevices on drawn listings: run_adb_command("devices") exits 0 with  *)
(* a listing of up to MaxLines lines, and get_connected_devices parses it. *)

MaxLines == 3

ID_LOCAL == <<"127.0.0.1:5555">>

DeviceLine(id, status) == [kind |-> "device", id |-> id, status |-> status]
OtherLine(kind, text) == [kind |-> kind, id |-> text, status |-> ""]

\* the lines a well-formed listing is made of
LineSpecs ==
    { DeviceLine(id, status) :
          id \in {ID_LOCAL, ID_EMU},
          status \in {"device", "offline", "unauthorized"} }
        \cup { OtherLine("comment", CommentLine),
               OtherLine("blank", <<>>),
               OtherLine("blank", <<" ", " ">>) }

\* the text of one line
LineText(l) == IF l.kind = "device" THEN DevLine(l.id, l.status) ELSE l.id

\* what the bridge prints: the header line, then the lines
RenderListing(lines) ==
    Join(<< <<HEADER>> >> \o [k \in 1..Len(lines) |-> LineText(lines[k])], "\n")
        \o <<"\n">>

InitParse ==
    /\ UiIdleCore
    /\ UiInit
    /\ DmIdle
    /\ RunIdle
    /\ p_in \in UNION { [1..n -> LineSpecs] : n \in 0..MaxLines }
    /\ p_out = [done |-> FALSE, devices |-> <<>>]

\* one call of get_connected_devices() on the drawn listing
ListDevices ==
    /\ ~p_out.done
    /\ p_out' =
          [done |-> TRUE,
           devices |-> get_connected_devices(
                           run_adb_command(LOCAL_ADB,
                                           Exit(0, RenderListing(p_in), <<>>)))]
    /\ UNCHANGED <<p_in, coreVars, uiVars, dmVars, runVars>>

ParseNext == ListDevices

SpecParse == InitParse /\ [][ParseNext]_vars

-----------------------------------------------------------------------------
(* IdentityResolver: DeviceManager (src/core/device_manager.py).  A MAC     *)
(* address is six atoms of two hex digits with a separator atom between     *)
(* each two; an IPv4 address is a prefix atom of three dotted numbers and   *)
(* one atom per digit of the last number.                                   *)

HexPairs == {"aa", "bb", "cc", "dd", "ee", "ff", "11", "22", "33", "44",
             "55", "66", "AA", "BB", "CC", "DD", "EE", "FF"}
Digits == {"0", "1", "2", "3", "4", "5", "6", "7", "8", "9"}
IpPrefixes == {"192.168.1."}

IsHexPair(a) == a \in HexPairs
IsMacSep(a) == a \in {":", "-"}
\* an atom made of word characters (\w), next to which \b finds no boundary
IsWordAtom(a) == a \in HexPairs \cup Digits \cup IpPrefixes

\* str.replace(a, b) for one-character a and b: every occurrence of the
\* character is replaced, each being an atom of its own in the texts given
Replace(s, a, b) == [k \in 1..Len(s) |-> IF s[k] = a THEN b ELSE s[k]]

\* the six pairs of a MAC address written with one separator
MacText(pairs, sep) ==
    [k \in 1..11 |-> IF k % 2 = 1 THEN pairs[(k + 1) \div 2] ELSE sep]

MAC_A == <<"aa", "bb", "cc", "dd", "ee", "ff">>
MAC_A_UPPER == <<"AA", "BB", "CC", "DD", "EE", "FF">>
MAC_B == <<"11", "22", "33", "44", "55", "66">>

\* ([0-9A-Fa-f]{2}[:-]){5}([0-9A-Fa-f]{2}) matches at atom k of the line
MacAt(line, k) ==
    /\ k + 10 <= Len(line)
    /\ \A j \in 0..10 :
          IF j % 2 = 0 THEN IsHexPair(line[k + j]) ELSE IsMacSep(line[k + j])

\* re.search(<the MAC pattern>, line): group(0) of the first match, or None
re_search_mac(line) ==
    IF \E k \in 1..Len(line) : MacAt(line, k)
    THEN LET k == CHOOSE k \in 1..Len(line) :
                      MacAt(line, k) /\ \A j \in 1..(k - 1) : ~MacAt(line, j)
         IN  SubSeq(line, k, k + 10)
    ELSE None

\* the number of digit atoms of the line from atom k on
RECURSIVE DigitRun(_, _)
DigitRun(line, k) ==
    IF k <= Len(line) /\ line[k] \in Digits THEN 1 + DigitRun(line, k + 1)
    ELSE 0

\* \b(?:[0-9]{1,3}\.){3}[0-9]{1,3}\b matches at atom k of the line
IpAt(line, k) ==
    /\ line[k] \in IpPrefixes
    /\ k = 1 \/ ~IsWordAtom(line[k - 1])
    /\ LET n == DigitRun(line, k + 1)
       IN  /\ n \in 1..3
           /\ k + n = Len(line) \/ ~IsWordAtom(line[k + n + 1])

\* re.search(<the IPv4 pattern>, arp_line): group(0) of the first match
re_search_ip(line) ==
    IF \E k \in 1..Len(line) : IpAt(line, k)
    THEN LET k == CHOOSE k \in 1..Len(line) :
                      IpAt(line, k) /\ \A j \in 1..(k - 1) : ~IpAt(line, j)
         IN  SubSeq(line, k, k + DigitRun(line, k + 1))
    ELSE None

Entry(mac, name) == [mac |-> mac, name |-> name]

\* `mac in self.mac_to_name`
HasKey(m, mac) == \E k \in 1..Len(m) : m[k].mac = mac

\* `self.mac_to_name[mac]`
Lookup(m, mac) == m[CHOOSE k \in 1..Len(m) : m[k].mac = mac].name

\* `mac_to_name[mac] = name` that keeps the name already stored
dict_set_keepfirst(m, mac, name) ==
    IF HasKey(m, mac) THEN m ELSE Append(m, Entry(mac, name))

\* `mac_to_name[mac] = name`: a new key goes last, a known key keeps its
\* place and takes the new name
dict_set(m, mac, name) ==
    IF HasKey(m, mac)
    THEN [k \in 1..Len(m) |-> IF m[k].mac = mac THEN Entry(mac, name) ELSE m[k]]
    ELSE Append(m, Entry(mac, name))

\* the body of `for line in f`, lines 31-37, on the mapping built so far
LoadLine(m, raw) ==
    LET line == Strip(raw)
    IN  IF line # <<>> /\ ~StartsWith(line, <<"#">>)
        THEN LET parts == Split(line, "=")
             IN  IF Len(parts) = 2
                 THEN dict_set(m, Lower(Strip(parts[1])), Strip(parts[2]))
                 ELSE m
        ELSE m

RECURSIVE LoadLines(_, _)
LoadLines(m, lines) ==
    IF lines = <<>> THEN m
    ELSE LoadLines(LoadLine(m, Head(lines)), Tail(lines))

\* _load_mac_mapping(): a missing file, or one that cannot be opened and
\* read, loads as the empty mapping
load_mac_mapping(f) ==
    IF f.exists /\ f.readable THEN LoadLines(<<>>, f.lines) ELSE <<>>

\* what subprocess.run(["arp", "-a"], timeout=30) did counts as a scan that
\* printed its table
ScanOk(o) == o.kind = "exit" /\ o.rc = 0

\* result.stdout.strip().split('\n')
ScanLines(o) == Split(Strip(o.stdout), "\n")

\* the loop of get_device_mac, lines 68-73, from line k on: the first line
\* that contains device_ip and holds a MAC decides
RECURSIVE MacOfLines(_, _, _)
MacOfLines(lines, device_ip, k) ==
    IF k > Len(lines) THEN None
    ELSE IF Contains(lines[k], device_ip) /\ re_search_mac(lines[k]) # None
    THEN Lower(re_search_mac(lines[k]))
    ELSE MacOfLines(lines, device_ip, k + 1)

\* get_device_mac(device_ip), given what the scan did
get_device_mac(device_ip, o) ==
    IF ScanOk(o) THEN MacOfLines(ScanLines(o), device_ip, 1) ELSE None

\* device_id.split(':')[0]
ip_part(id) == Split(id, ":")[1]

\* get_device_name, lines 90-94: `if mac and mac in self.mac_to_name`
name_of_mac(m, mac, id) ==
    IF mac # None /\ mac # <<>> /\ HasKey(m, mac) THEN Lookup(m, mac) ELSE id

\* mac.lower().replace('-', ':') and arp_line.lower().replace('-', ':')
normalized(t) == Replace(Lower(t), "-", ":")

\* the inner loop of get_usable_devices with the `break` under `if ip_match`:
\* a line holding the MAC but no IP does not end the loop
RECURSIVE UsableOfEntry_untilip(_, _, _)
UsableOfEntry_untilip(e, lines, k) ==
    IF k > Len(lines) THEN <<>>
    ELSE IF /\ Contains(normalized(lines[k]), normalized(e.mac))
            /\ re_search_ip(lines[k]) # None
    THEN << [ip |-> re_search_ip(lines[k]), name |-> e.name, mac |-> e.mac] >>
    ELSE UsableOfEntry_untilip(e, lines, k + 1)

\* the inner loop of get_usable_devices, lines 120-135, from line k on: the
\* first line holding the entry's MAC ends the loop, with or without an IP
RECURSIVE UsableOfEntry(_, _, _)
UsableOfEntry(e, lines, k) ==
    IF k > Len(lines) THEN <<>>
    ELSE IF Contains(normalized(lines[k]), normalized(e.mac))
    THEN (IF re_search_ip(lines[k]) # None
          THEN << [ip |-> re_search_ip(lines[k]), name |-> e.name,
                   mac |-> e.mac] >>
          ELSE <<>>)
    ELSE UsableOfEntry(e, lines, k + 1)

RECURSIVE UsableOfEntries(_, _)
UsableOfEntries(m, lines) ==
    IF m = <<>> THEN <<>>
    ELSE UsableOfEntry(Head(m), lines, 1) \o UsableOfEntries(Tail(m), lines)

\* get_usable_devices(), given what the scan did
get_usable_devices(m, o) ==
    IF ~ScanOk(o) THEN <<>>
    ELSE IF m = <<>> THEN <<>>
    ELSE UsableOfEntries(m, ScanLines(o))

(* The environment of DeviceManager: mapping files and scan tables.         *)

\* the lines a mapping file is made of at most
MaxCfgLines == 2

CfgLines ==
    { MacText(MAC_A, ":") \o <<"=", "LivingRoom", "\n">>,
      MacText(MAC_A_UPPER, "-") \o <<"=", "Kitchen", "\n">>,
      <<" ">> \o MacText(MAC_A_UPPER, ":") \o <<" ", "=", " ", "Bedroom", " ", "\n">>,
      MacText(MAC_B, ":") \o <<"=", "\n">>,
      <<"#", " ">> \o MacText(MAC_B, ":") \o <<"=", "Office", "\n">>,
      <<"\n">>,
      <<"LivingRoom", "\n">>,
      MacText(MAC_B, ":") \o <<"=", "Office", "=", "2", "\n">> }

CfgFile(exists, readable, lines) ==
    [exists |-> exists, readable |-> readable, lines |-> lines]

CfgFiles ==
    { CfgFile(FALSE, FALSE, <<>>), CfgFile(TRUE, FALSE, <<>>) }
        \cup { CfgFile(TRUE, TRUE, ls) :
                   ls \in UNION { [1..n -> CfgLines] : n \in 0..MaxCfgLines } }

\* one row of the neighbor table: "  <ip>   <mac>   dynamic"
ArpRow(ip, mac) == <<" ", " ">> \o ip \o <<" ", " ">> \o mac \o <<" ", "dynamic">>

\* a row that names its host instead of giving an address
NamedRow(host, mac) ==
    <<" ", " ">> \o host \o <<" ", " ">> \o mac \o <<" ", "dynamic">>

ADDR_50 == <<"192.168.1.", "5", "0">>
ADDR_7 == <<"192.168.1.", "7">>

ArpTable(rows) ==
    Join(<< <<>>, <<"Interface: ", "192.168.1.", "2", " ", "-", "-", "-",
                    " ", "0x5">> >>
             \o rows \o << <<>> >>, "\n")

ArpStdouts ==
    { ArpTable(<<ArpRow(ADDR_50, MacText(MAC_A, "-")),
                 ArpRow(ADDR_5, MacText(MAC_B, "-"))>>),
      ArpTable(<<ArpRow(ADDR_5, MacText(MAC_A, ":")),
                 ArpRow(ADDR_7, MacText(MAC_A, ":"))>>),
      ArpTable(<<ArpRow(ADDR_5, MacText(MAC_A_UPPER, ":"))>>),
      ArpTable(<<ArpRow(ADDR_5, <<"(incomplete)">>),
                 ArpRow(ADDR_50, MacText(MAC_B, ":"))>>),
      ArpTable(<<NamedRow(<<"gateway">>, MacText(MAC_A, ":")),
                 ArpRow(ADDR_5, MacText(MAC_A, ":"))>>),
      ArpTable(<<>>),
      <<>> }

ArpOutcomes ==
    { Exit(0, out, <<>>) : out \in ArpStdouts }
        \cup { Exit(1, <<>>, <<"arp: cannot open table", "\n">>),
               TimeoutExpired,
               FileNotFound }

DmIds == {ID_5, ADDR_5, ID_50, ID_EMU}

(* DeviceManager's operations: the constructor's load, then one call.       *)

\* the mapping file may be loaded this many times
MaxLoads == 2

InitName ==
    /\ UiIdleCore
    /\ UiInit
    /\ ParseIdle
    /\ RunIdle
    /\ cfg \in CfgFiles
    /\ mac_to_name = <<>>
    /\ prev_map = <<>>
    /\ loads = 0
    /\ dm_pc = "m_load"
    /\ dm_op = "none"
    /\ dm_arg = None
    /\ dm_mac = None
    /\ dm_name = None
    /\ dm_usable = <<>>
    /\ scans = <<>>

\* DeviceManager.__init__: self.mac_to_name = self._load_mac_mapping()
LoadMapping ==
    /\ dm_pc \in {"m_load", "m_ready"}
    /\ loads < MaxLoads
    /\ loads' = loads + 1
    /\ prev_map' = mac_to_name
    /\ mac_to_name' = load_mac_mapping(cfg)
    /\ dm_pc' = "m_ready"
    /\ UNCHANGED <<cfg, dm_op, dm_arg, dm_mac, dm_name, dm_usable, scans>>
    /\ UNCHANGED <<coreVars, uiVars, parseVars, runVars>>

\* get_device_name(device_id): one scan, then the lookup; every exception
\* returns device_id
GetDeviceName ==
    /\ dm_pc = "m_ready"
    /\ \E id \in DmIds, o \in ArpOutcomes :
          LET mac == get_device_mac(ip_part(id), o)
          IN  /\ dm_arg' = id
              /\ scans' = Append(scans, o)
              /\ dm_mac' = mac
              /\ dm_name' = name_of_mac(mac_to_name, mac, id)
    /\ dm_op' = "resolve_name"
    /\ dm_pc' = "done"
    /\ UNCHANGED <<cfg, mac_to_name, prev_map, loads, dm_usable>>
    /\ UNCHANGED <<coreVars, uiVars, parseVars, runVars>>

\* get_usable_devices(): the scan comes first (line 103), the test of the
\* mapping after it (line 113)
GetUsableDevices ==
    /\ dm_pc = "m_ready"
    /\ \E o \in ArpOutcomes :
          /\ scans' = Append(scans, o)
          /\ dm_usable' = get_usable_devices(mac_to_name, o)
    /\ dm_op' = "usable_devices"
    /\ dm_pc' = "done"
    /\ UNCHANGED <<cfg, mac_to_name, prev_map, loads, dm_arg, dm_mac, dm_name>>
    /\ UNCHANGED <<coreVars, uiVars, parseVars, runVars>>

NameNext ==
    \/ LoadMapping
    \/ GetDeviceName
    \/ GetUsableDevices

SpecName == InitName /\ [][NameNext]_vars

(* Every public core operation, one call each.                              *)

PACKAGE == <<"com.example.app">>

PackageOutcomes ==
    { Exit(0, <<"Success", "\n">>, <<>>),
      Exit(1, <<>>, <<"Failure [DELETE_FAILED_INTERNAL_ERROR]", "\n">>),
      TimeoutExpired }

\* the body the three package operations share: one command, whose result
\* is returned as it is
PackageCommand(cmd) ==
    /\ pc = "start"
    /\ \E o \in PackageOutcomes :
          LET r == run_adb_command(adb_exe, o)
          IN  /\ calls' = Append(calls, Call(cmd, r))
              /\ result' = r
              /\ Return(r)
    /\ UNCHANGED <<uiVars, parseVars, dmVars, runVars>>
    /\ UNCHANGED <<log_file, op, adb_exe, device_id, apk_path, fs, ip_address,
                   devices, i, diagnosis, device_info>>

\* uninstall_app(device_id, package_name), lines 211-215
UninstallApp ==
    /\ op = "uninstall"
    /\ PackageCommand(Cmd(device_id, "uninstall", <<>>, PACKAGE))

\* clear_app_cache(device_id, package_name), lines 217-221
ClearAppCache ==
    /\ op = "clear_cache"
    /\ PackageCommand(Cmd(device_id, "shell", <<"pm", "clear">>, PACKAGE))

\* force_stop_app(device_id, package_name), lines 223-227
ForceStopApp ==
    /\ op = "force_stop"
    /\ PackageCommand(Cmd(device_id, "shell", <<"am", "force-stop">>, PACKAGE))

LogOutcomes ==
    { Exit(0, <<"10-29 12:00:00.000  1234  1234 I com.example.app: started",
                "\n">>, <<>>),
      Exit(0, <<>>, <<>>),
      Exit(1, <<>>, <<>>),
      Exit(1, <<"--------- beginning of main", "\n">>,
           <<"error: closed", "\n">>),
      TimeoutExpired }

\* the module-level run_adb_command(command), lines 309-311: the output of
\* the result alone
run_adb_command_output(exe, outcome) == run_adb_command(exe, outcome).output

\* pull_logs(device_id, package_name, output_path), lines 318-339: the
\* output of `logcat -d ... | grep <package>` is written to output_path
\* when it is not empty; True when the file was written, False when there
\* was nothing to write or the writing raised
PullLogs ==
    /\ pc = "start"
    /\ op = "pull_logs"
    /\ \E o \in LogOutcomes, writable \in BOOLEAN :
          LET r == run_adb_command(adb_exe, o)
              output == run_adb_command_output(adb_exe, o)
              cmd == Cmd(device_id, "logcat",
                         <<"-d", "-v", "threadtime", "|", "grep">>, PACKAGE)
          IN  /\ calls' = Append(calls, Call(cmd, r))
              /\ IF output # None /\ output # <<>>
                 THEN IF writable
                      THEN log_file' = output /\ Return(TRUE)
                      ELSE log_file' = log_file /\ Return(FALSE)
                 ELSE log_file' = log_file /\ Return(FALSE)
    /\ UNCHANGED <<uiVars, parseVars, dmVars, runVars>>
    /\ UNCHANGED <<op, adb_exe, device_id, apk_path, fs, ip_address, devices,
                   i, result, diagnosis, device_info>>

InitOps == Init \/ InitSimple \/ InitName

OpsNext ==
    \/ CoreNext
    \/ EnumerateDevices
    \/ Disconnect
    \/ UninstallApp
    \/ ClearAppCache
    \/ ForceStopApp
    \/ PullLogs
    \/ NameNext

SpecOps == InitOps /\ [][OpsNext]_vars

-----------------------------------------------------------------------------
(* CommandRunner on drawn outcomes: one call of run_adb_command, given what *)
(* get_adb_executable finds and what the external process does.             *)

RunTexts ==
    { <<>>,
      <<"ok">>,
      <<" ", "ok", "\n">>,
      <<"\n", "\t">>,
      <<"a", "\n", " ", "b", "\r", "\n", "\n">> }

RunOutcomes ==
    { Exit(rc, out, err) : rc \in {0, 1, 255}, out \in RunTexts, err \in RunTexts }
        \cup { TimeoutExpired,
               FileNotFound,
               Raised(<<"[Errno 13] Permission denied">>) }

InitRun ==
    /\ UiIdleCore
    /\ UiInit
    /\ ParseIdle
    /\ DmIdle
    /\ r_in \in [exe : {LOCAL_ADB, None}, outcome : RunOutcomes]
    /\ r_out = [done |-> FALSE, result |-> NoResult]
    /\ r_execs = 0
    /\ adb_file = (r_in.exe # None)
    /\ r_log = <<>>

\* run_adb_command(command): subprocess.run is reached, once (line 49),
\* when an executable was found
RunCommand ==
    /\ ~r_out.done
    /\ r_out' = [done |-> TRUE,
                 result |-> run_adb_command(r_in.exe, r_in.outcome)]
    /\ r_execs' = IF r_in.exe = None THEN r_execs ELSE r_execs + 1
    /\ UNCHANGED <<r_in, adb_file, r_log, coreVars, uiVars, parseVars, dmVars>>

RunNext == RunCommand

SpecRun == InitRun /\ [][RunNext]_vars

-----------------------------------------------------------------------------
(* The runner over the life of the process: run_adb_command is called again *)
(* and again, and looks the executable up at each call; the adb directory   *)
(* belongs to the file system, where adb.exe may be put or removed between  *)
(* two calls.                                                               *)

\* the invocations one process makes at most
MaxRuns == 3

\* get_adb_executable() that falls back to the bare command name
get_adb_executable_default(file_exists) ==
    IF file_exists THEN LOCAL_ADB ELSE <<"adb">>

\* get_adb_executable(), lines 17-32: the local adb.exe when it exists,
\* else None
get_adb_executable(file_exists) ==
    IF file_exists THEN LOCAL_ADB ELSE None

ResolveOutcomes ==
    { Exit(0, <<"ok", "\n">>, <<>>),
      Exit(1, <<>>, <<"error: closed", "\n">>),
      TimeoutExpired,
      FileNotFound }

InitResolve ==
    /\ UiIdleCore
    /\ UiInit
    /\ ParseIdle
    /\ DmIdle
    /\ r_in = [exe |-> None, outcome |-> TimeoutExpired]
    /\ r_out = [done |-> FALSE, result |-> NoResult]
    /\ r_execs = 0
    /\ adb_file \in BOOLEAN
    /\ r_log = <<>>

\* one run_adb_command(command) call, lines 35-63: the lookup of line 38,
\* then subprocess.run when it found the executable
Invoke ==
    /\ Len(r_log) < MaxRuns
    /\ \E o \in ResolveOutcomes :
          LET exe == get_adb_executable(adb_file)
          IN  r_log' = Append(r_log,
                  [found |-> adb_file,
                   exe |-> exe,
                   execs |-> IF exe = None THEN 0 ELSE 1,
                   result |-> run_adb_command(exe, o)])
    /\ UNCHANGED <<r_in, r_out, r_execs, adb_file>>
    /\ UNCHANGED <<coreVars, uiVars, parseVars, dmVars>>

\* the environment: adb.exe is put into, or removed from, the adb directory
AdbFileChange ==
    /\ adb_file' = ~adb_file
    /\ UNCHANGED <<r_in, r_out, r_execs, r_log>>
    /\ UNCHANGED <<coreVars, uiVars, parseVars, dmVars>>

ResolveNext == Invoke \/ AdbFileChange

SpecResolve == InitResolve /\ [][ResolveNext]_vars

-----------------------------------------------------------------------------
(* Properties of the installation ladder and of connect, under Spec.       *)

IsInstallCall(c) == c.cmd.verb = "install"
IsDevicesCall(c) == c.cmd.verb = "devices"
IsVersionCall(c) == c.cmd.verb = "version"

\* the install strategy commands issued so far, in order
InstallCalls == SelectSeq(calls, IsInstallCall)

\* the ladder as the specification words it: (1) reinstall+downgrade,
\* (2) reinstall+test+downgrade, (3) reinstall, (4) reinstall+test, (5) plain
Ladder ==
    << <<"-r", "-d">>, <<"-r", "-t", "-d">>, <<"-r">>, <<"-r", "-t">>, <<>> >>

TerminalSignatures ==
    { "INSTALL_FAILED_ALREADY_EXISTS",
      "INSTALL_FAILED_INVALID_APK",
      "INSTALL_FAILED_INSUFFICIENT_STORAGE" }

HasTerminalSignature(r) ==
    ~r.success /\ \E sig \in TerminalSignatures : Contains(r.error, <<sig>>)

Failure(error) == CommandResult(FALSE, None, error)

\* C1: the strategy commands of one install call are the ladder's, in its
\* order and without repetition; a strategy is issued only after every
\* earlier one returned a failure; a strategy that returns success is the
\* last bridge command of the call, and its result is what install returns.
C1_LadderInOrder ==
    op = "install" =>
        LET ic == InstallCalls
        IN  /\ Len(ic) <= Len(Ladder)
            /\ \A k \in 1..Len(ic) :
                  /\ ic[k].cmd = Cmd(device_id, "install", Ladder[k], apk_path)
                  /\ k < Len(ic) => ~ic[k].result.success
            /\ \A k \in 1..Len(calls) :
                  (IsInstallCall(calls[k]) /\ calls[k].result.success) =>
                      /\ k = Len(calls)
                      /\ pc = "done"
                      /\ ret = calls[k].result

\* C1 witness: the third strategy succeeded after two failures
C1_Witness ==
    /\ op = "install"
    /\ pc = "done"
    /\ Len(InstallCalls) = 3
    /\ InstallCalls[3].result.success
    /\ ret.success

\* C2: a strategy failure whose error text holds a terminal signature ends
\* the call: no later bridge command, no diagnosis, and install returns a
\* failure whose error is exactly that strategy's error text.
C2_FastFail ==
    \A k \in 1..Len(calls) :
        (IsInstallCall(calls[k]) /\ HasTerminalSignature(calls[k].result)) =>
            /\ k = Len(calls)
            /\ pc = "done"
            /\ diagnosis = <<>>
            /\ ret = Failure(calls[k].result.error)

\* C2 witness: the second strategy failed with insufficient storage
C2_Witness ==
    /\ pc = "done"
    /\ Len(InstallCalls) = 2
    /\ Contains(InstallCalls[2].result.error,
                <<"INSTALL_FAILED_INSUFFICIENT_STORAGE">>)
    /\ ~ret.success

\* all five strategies were issued and each failed without a signature
LadderExhausted ==
    /\ Len(InstallCalls) = Len(Ladder)
    /\ \A k \in 1..Len(InstallCalls) :
          /\ ~InstallCalls[k].result.success
          /\ ~HasTerminalSignature(InstallCalls[k].result)

\* the position in the log of the k-th strategy command
RECURSIVE PositionOf(_, _)
PositionOf(k, from) ==
    IF from > Len(calls) THEN 0
    ELSE IF IsInstallCall(calls[from])
    THEN (IF k = 1 THEN from ELSE PositionOf(k - 1, from + 1))
    ELSE PositionOf(k, from + 1)

\* C3: the diagnosis pass runs exactly when the five strategies all failed
\* without a terminal signature; it runs once, after the fifth strategy, and
\* install then returns a failure whose error starts with the exhaustion
\* header and contains every line of the diagnosis report.
C3_Exhaustion ==
    op = "install" =>
        /\ (diagnosis # <<>> \/ \E k \in 1..Len(calls) : IsVersionCall(calls[k]))
              => LadderExhausted
        /\ (LadderExhausted /\ pc = "done") =>
              /\ diagnosis # <<>>
              /\ Len(SelectSeq(calls, IsVersionCall)) = 1
              /\ Len(SelectSeq(calls, IsDevicesCall)) = 2
              /\ \A k \in 1..Len(calls) :
                    IsVersionCall(calls[k]) => k > PositionOf(Len(Ladder), 1)
              /\ ~ret.success
              /\ StartsWith(ret.error, EXHAUSTED_HEADER)
              /\ \A k \in 1..Len(diagnosis) : Contains(ret.error, diagnosis[k])

\* C3 witness: the ladder was exhausted and the report holds the device lines
C3_Witness ==
    /\ op = "install"
    /\ pc = "done"
    /\ LadderExhausted
    /\ \E k \in 1..Len(diagnosis) : diagnosis[k] = DIAG_DEV_CONNECTED
    /\ Len(diagnosis) >= 7

\* the usable set of the enumeration install_apk ran first
FirstEnumeration ==
    IF calls # <<>> /\ IsDevicesCall(calls[1])
    THEN get_connected_devices(calls[1].result)
    ELSE <<>>

InUsableSet(id) ==
    \E k \in 1..Len(FirstEnumeration) :
        /\ FirstEnumeration[k].id = id
        /\ FirstEnumeration[k].status = <<"device">>

\* C6: the preconditions are decided in the order exists, device usable,
\* artifact valid; the error returned is the one of the first that fails,
\* the three errors differ, and no strategy command is issued when one fails.
C6_PreconditionOrder ==
    /\ ERR_APK_NOT_FOUND # ERR_APK_INVALID
    /\ ERR_NOT_CONNECTED(device_id) # ERR_APK_NOT_FOUND
    /\ ERR_NOT_CONNECTED(device_id) # ERR_APK_INVALID
    /\ (op = "install" /\ pc = "done") =>
          IF ~fs.exists
          THEN ret = Failure(ERR_APK_NOT_FOUND) /\ InstallCalls = <<>>
          ELSE IF ~InUsableSet(device_id)
          THEN ret = Failure(ERR_NOT_CONNECTED(device_id)) /\ InstallCalls = <<>>
          ELSE IF ~is_valid_apk(apk_path, fs)
          THEN ret = Failure(ERR_APK_INVALID) /\ InstallCalls = <<>>
          ELSE InstallCalls # <<>>

\* C6 witness: the device is not usable and the artifact is invalid as well
C6_Witness ==
    /\ op = "install"
    /\ pc = "done"
    /\ fs.exists
    /\ ~InUsableSet(device_id)
    /\ ~is_valid_apk(apk_path, fs)
    /\ ret = Failure(ERR_NOT_CONNECTED(device_id))

\* C7: with no artifact at the path, install returns the artifact-not-found
\* failure and invokes the bridge not once.
C7_MissingArtifact ==
    (op = "install" /\ ~fs.exists) =>
        /\ calls = <<>>
        /\ pc \in {"start", "done"}
        /\ pc = "done" => ret = Failure(ERR_APK_NOT_FOUND)

\* C7 witness: install has returned for a missing artifact
C7_Witness ==
    /\ op = "install"
    /\ ~fs.exists
    /\ pc = "done"
    /\ adb_exe # None

\* an existing artifact that is empty, or lacks the suffix (compared without
\* regard to case), or does not begin with PK
BadArtifact ==
    /\ fs.exists
    /\ \/ Len(fs.content) = 0
       \/ ~EndsWith(Lower(apk_path), <<".apk">>)
       \/ Len(fs.content) < 2
       \/ SubSeq(fs.content, 1, 2) # <<"P", "K">>

\* C8 as stated: such an artifact is rejected as invalid before any bridge
\* call is attempted.
C8_AsStated ==
    (op = "install" /\ pc = "done" /\ BadArtifact) =>
        /\ ret = Failure(ERR_APK_INVALID)
        /\ calls = <<>>

\* C8 amended: such an artifact is rejected after exactly one bridge call,
\* the precondition enumeration, and with no strategy or diagnosis command;
\* the failure is invalid-artifact when the device is in the usable set, and
\* device-not-connected otherwise.
C8_InvalidArtifact ==
    (op = "install" /\ pc = "done" /\ BadArtifact) =>
        /\ Len(calls) = 1
        /\ IsDevicesCall(calls[1])
        /\ diagnosis = <<>>
        /\ ret = IF InUsableSet(device_id)
                 THEN Failure(ERR_APK_INVALID)
                 ELSE Failure(ERR_NOT_CONNECTED(device_id))

\* C8 witness: a file that does not begin with PK was rejected as invalid
C8_Witness ==
    /\ op = "install"
    /\ pc = "done"
    /\ fs.content = <<"M", "Z", "x90", "x00">>
    /\ apk_path = <<"app", ".apk">>
    /\ ret = Failure(ERR_APK_INVALID)

\* the connect command succeeded and its output, lowercased, holds neither
\* a success phrase nor a failure phrase
AmbiguousConnect(r) ==
    /\ r.success
    /\ ~Contains(Lower(r.output), <<"connected to">>)
    /\ ~Contains(Lower(r.output), <<"already ", "connected to">>)
    /\ ~Contains(Lower(r.output), <<"cannot connect to">>)
    /\ ~Contains(Lower(r.output), <<"failed to connect">>)

\* C9: an ambiguous connect output is settled by exactly one enumeration:
\* success (the command's result) when a usable device id contains the
\* requested address, else the fixed failure; also when the enumeration
\* fails or is empty.
C9_AmbiguousConnect ==
    (op = "connect" /\ calls # <<>> /\ AmbiguousConnect(calls[1].result)) =>
        /\ pc \in {"c_verify", "done"}
        /\ pc = "c_verify" => Len(calls) = 1
        /\ pc = "done" =>
              /\ Len(calls) = 2
              /\ calls[2].cmd = Cmd(None, "devices", <<>>, None)
              /\ LET ds == get_connected_devices(calls[2].result)
                 IN  IF \E k \in 1..Len(ds) : Contains(ds[k].id, ip_address)
                     THEN ret = calls[1].result /\ ret.success
                     ELSE ret = CommandResult(FALSE, calls[1].result.output,
                                              ERR_CONNECT_FAILED)

\* C9 witness: the output was ambiguous, the listed id 192.168.1.50:5555
\* contains the requested 192.168.1.5, and connect returned success
C9_Witness ==
    /\ op = "connect"
    /\ pc = "done"
    /\ Len(calls) = 2
    /\ AmbiguousConnect(calls[1].result)
    /\ ip_address = ADDR_5
    /\ ret.success

\* the connect commands issued so far
IsConnectCall(c) == c.cmd.verb = "connect"

\* the spellings of a phrase atom that differ in the case of letters only
Spellings(a) ==
    IF a = "connected to" THEN {"connected to", "Connected to", "CONNECTED TO"}
    ELSE IF a = "already " THEN {"already ", "Already "}
    ELSE IF a = "cannot connect to"
    THEN {"cannot connect to", "Cannot connect to"}
    ELSE IF a = "failed to connect"
    THEN {"failed to connect", "Failed to connect"}
    ELSE {a}

\* the text holds the phrase in some spelling
HoldsAnyCase(text, phrase) ==
    \E k \in 0..Len(text) :
        /\ k + Len(phrase) <= Len(text)
        /\ \A j \in 1..Len(phrase) : text[k + j] \in Spellings(phrase[j])

\* C18: when the connect command succeeds and its output, compared without
\* regard to case, contains "connected to" or "already connected to",
\* connect returns the command's result unchanged; otherwise, when it
\* contains "cannot connect to" or "failed to connect", connect returns a
\* failure with the fixed message and the command's output; in both cases
\* the connect command is the only bridge call.
C18_PhraseVerdict ==
    (op = "connect" /\ calls # <<>> /\ calls[1].result.success) =>
        LET r == calls[1].result
            yes == HoldsAnyCase(r.output, <<"connected to">>)
                       \/ HoldsAnyCase(r.output, <<"already ", "connected to">>)
            no == HoldsAnyCase(r.output, <<"cannot connect to">>)
                      \/ HoldsAnyCase(r.output, <<"failed to connect">>)
        IN  /\ yes => (pc = "done" /\ Len(calls) = 1 /\ ret = r /\ ret.success)
            /\ (~yes /\ no) =>
                  /\ pc = "done"
                  /\ Len(calls) = 1
                  /\ ret = CommandResult(FALSE, r.output, ERR_CONNECT_FAILED)

\* C18 witness: the command exited 0 and printed "Failed to connect to
\* <address>"; connect returned the fixed failure after that one call
C18_Witness ==
    /\ op = "connect"
    /\ pc = "done"
    /\ Len(calls) = 1
    /\ calls[1].result.success
    /\ Contains(calls[1].result.output, <<"Failed to connect">>)
    /\ ret.error = ERR_CONNECT_FAILED

\* C19: a connect command that fails (nonzero exit, timeout, tool not
\* found) ends the call: connect returns that very result, whatever its
\* text, and issues no enumeration; and a call issues the connect command
\* once, as its first bridge call.
C19_ConnectFailure ==
    op = "connect" =>
        /\ Len(SelectSeq(calls, IsConnectCall)) <= 1
        /\ pc # "start" =>
              /\ Len(SelectSeq(calls, IsConnectCall)) = 1
              /\ calls[1].cmd = Cmd(None, "connect", <<>>, ip_address)
        /\ (calls # <<>> /\ ~calls[1].result.success) =>
              /\ pc = "done"
              /\ Len(calls) = 1
              /\ ret = calls[1].result

\* C19 witness: the command exited 1 with a failure phrase in its stdout,
\* and connect handed that result back
C19_Witness ==
    /\ op = "connect"
    /\ pc = "done"
    /\ Len(calls) = 1
    /\ ~calls[1].result.success
    /\ calls[1].result.output # None
    /\ Contains(calls[1].result.output, <<"failed to connect">>)
    /\ ret = calls[1].result

-----------------------------------------------------------------------------
(* Properties of the worker bookkeeping, under SpecUI.                     *)

\* the single-flight workers started and not yet collected
SlotWorkers == {w \in workers : w.kind \in SlotKinds}

\* the installation workers started and not yet completed
InstallsInFlight == {w.id : w \in {x \in workers : x.kind = "install"}}

\* the step is a request handler (it reports in `last`, constructs a worker
\* or consumes a timer shot)
RequestStep ==
    \/ last' # last
    \/ next_id' # next_id
    \/ \E s \in TimerSources : timers'[s] < timers[s]

C4_AtMostOne ==
    /\ Cardinality(SlotWorkers) <= 1
    /\ \A w \in SlotWorkers : current_worker = w.id
    /\ current_worker # 0 => \E w \in SlotWorkers : w.id = current_worker
    /\ \A w \in workers : w.id \notin rejected

C4_Rejected ==
    (current_worker # 0 /\ RequestStep /\ last'.op \in SlotKinds) =>
        /\ current_worker' = current_worker
        /\ workers' = workers
        /\ last'.busy
        /\ last'.started = 0

\* C4: at most one single-flight operation is in flight, and it is the one
\* in the slot; a single-flight request that finds the slot occupied starts
\* no worker, leaves the slot and the running workers as they are, reports
\* busy, and the worker it was turned away with never runs.
C4_SingleFlight == []C4_AtMostOne /\ [][C4_Rejected]_vars

\* C4 witness: a disconnect holds the slot, its callback has run and set the
\* timer, on_worker_finished has not run yet; the timer shot has fired and
\* been turned away, and after it a connect was turned away too
C4_Witness ==
    /\ \E w \in workers :
          w.id = current_worker /\ w.kind = "disconnect" /\ w.state = "called"
    /\ timers["disconnect"] = 0
    /\ last = [op |-> "connect", busy |-> TRUE, started |-> 0]
    /\ rejected # {}
    /\ Cardinality(SlotWorkers) = 1

RECURSIVE Range(_)
Range(list) == IF list = <<>> THEN {} ELSE {Head(list)} \cup Range(Tail(list))

C5_Tracked ==
    /\ Range(install_workers) = InstallsInFlight
    /\ Len(install_workers) = Cardinality(InstallsInFlight)
    /\ (DeviceChosen /\ next_id <= MaxWorkers) => ENABLED InstallApp

C5_Steps ==
    /\ (last'.op = "install" /\ next_id' # next_id) =>
          /\ install_workers' = Append(install_workers, next_id)
          /\ workers' = workers \cup {Worker(next_id, "install", "running", FALSE)}
          /\ current_worker' = current_worker
          /\ ~last'.busy
    /\ Len(install_workers') < Len(install_workers) =>
          \E w \in workers :
              /\ w.kind = "install"
              /\ w.state = "emitted"
              /\ workers' = workers \ {w}
              /\ LET Other(x) == x # w.id
                 IN  install_workers' = SelectSeq(install_workers, Other)
              /\ Len(install_workers') = Len(install_workers) - 1
              /\ current_worker' = current_worker

\* C5: an install request (a device selected, a file chosen) starts a new
\* installation worker whatever is in flight and whatever the slot holds;
\* install_workers is exactly the installations started and not completed;
\* a completion removes that installation alone and leaves the others and
\* the slot as they are.
C5_Installations == []C5_Tracked /\ [][C5_Steps]_vars

\* C5 witness: a device was picked from the list refresh 1 filled; the
\* disconnect 2 holds the slot, its callback has run and its timer shot has
\* been turned away, on_worker_finished has not run yet; the installation 3
\* was requested then and is in flight
C5_Witness ==
    /\ DeviceChosen
    /\ \E w \in workers :
          w.id = current_worker /\ w.kind = "disconnect" /\ w.state = "called"
    /\ timers["disconnect"] = 0
    /\ last = [op |-> "install", busy |-> FALSE, started |-> 3]
    /\ install_workers = <<3>>

-----------------------------------------------------------------------------
(* Properties of the enumeration parser, under SpecParse.                  *)

\* the devices a listing announces as usable: its device lines whose status
\* token is "device", in the order of the listing
RECURSIVE UsableOf(_)
UsableOf(lines) ==
    IF lines = <<>> THEN <<>>
    ELSE (IF Head(lines).kind = "device" /\ Head(lines).status = "device"
          THEN <<[id |-> Head(lines).id, status |-> <<"device">>]>>
          ELSE <<>>) \o UsableOf(Tail(lines))

\* C10: for a listing made of the header, '<id>\t<status>' lines, comment
\* lines and blank lines, listDevices returns exactly the devices whose
\* status is "device", in listing order, each with its id; lines with any
\* other status are left out.
C10_ListDevices == p_out.done => p_out.devices = UsableOf(p_in)

\* C10 witness: two usable devices returned in order from a listing that
\* also holds an unauthorized device
C10_Witness ==
    /\ p_out.done
    /\ p_in = << DeviceLine(ID_EMU, "device"),
                 DeviceLine(ID_LOCAL, "unauthorized"),
                 DeviceLine(ID_LOCAL, "device") >>
    /\ p_out.devices = << Device(ID_EMU, <<"device">>),
                          Device(ID_LOCAL, <<"device">>) >>

-----------------------------------------------------------------------------
(* Properties of the identity resolver, under SpecName.                     *)

ResolveDone == dm_op = "resolve_name" /\ dm_pc = "done"
UsableDone == dm_op = "usable_devices" /\ dm_pc = "done"

\* the scan of the call that has just returned
LastScan == scans[Len(scans)]

\* the two texts are equal once lowercased and with '-' read as ':'
SameMac(a, b) == Replace(Lower(a), "-", ":") = Replace(Lower(b), "-", ":")

\* C11: resolveName returns a value whatever the mapping and the scan; the
\* value is the mapped name when the scan yielded a MAC that is a key of
\* the mapping and the input device id otherwise; and for a non-empty
\* device id it is never the empty text.
C11_ResolveNameTotal ==
    ResolveDone =>
        /\ dm_name # None
        /\ dm_name = IF dm_mac # None /\ HasKey(mac_to_name, dm_mac)
                     THEN Lookup(mac_to_name, dm_mac)
                     ELSE dm_arg
        /\ dm_arg # <<>> => dm_name # <<>>

\* C12: a mapping key matches a MAC of the scan output whenever the two are
\* equal after lowercasing and with '-' and ':' read as one separator: then
\* resolveName returns the name of such a key, and listUsableDevices emits
\* a device for every key that a scan line with an address holds.
C12_SeparatorInsensitive ==
    /\ (ResolveDone /\ dm_mac # None
           /\ \E k \in 1..Len(mac_to_name) : SameMac(mac_to_name[k].mac, dm_mac))
          => \E k \in 1..Len(mac_to_name) :
                /\ SameMac(mac_to_name[k].mac, dm_mac)
                /\ dm_name = mac_to_name[k].name
    /\ (UsableDone /\ ScanOk(LastScan)) =>
          \A k \in 1..Len(mac_to_name) :
              (\E j \in 1..Len(ScanLines(LastScan)) :
                   LET line == ScanLines(LastScan)[j]
                   IN  /\ re_search_mac(line) # None
                       /\ SameMac(re_search_mac(line), mac_to_name[k].mac)
                       /\ re_search_ip(line) # None
                       /\ \A h \in 1..(j - 1) :
                             re_search_mac(ScanLines(LastScan)[h]) = None
                                 \/ ~SameMac(re_search_mac(ScanLines(LastScan)[h]),
                                             mac_to_name[k].mac))
                  => \E u \in 1..Len(dm_usable) :
                        dm_usable[u].mac = mac_to_name[k].mac

\* the '=' atoms of a line
EqualsIn(l) == {j \in 1..Len(l) : l[j] = "="}

\* a line of the mapping file that contributes an entry: not blank, not a
\* comment, exactly one '='
WellFormed(raw) ==
    LET l == Strip(raw)
    IN  l # <<>> /\ l[1] # "#" /\ Cardinality(EqualsIn(l)) = 1

\* the key and the name a well-formed line gives
KeyOf(raw) ==
    LET l == Strip(raw)
        e == CHOOSE j \in EqualsIn(l) : TRUE
    IN  Lower(Strip(SubSeq(l, 1, e - 1)))
NameOf(raw) ==
    LET l == Strip(raw)
        e == CHOOSE j \in EqualsIn(l) : TRUE
    IN  Strip(SubSeq(l, e + 1, Len(l)))

\* C13: loading the same mapping file a second time gives the mapping of
\* the first load; the keys of the mapping are exactly the lowercased keys
\* of the lines that are not blank, do not start with '#' and hold exactly
\* one '='; each key occurs once, and its name is the name of the last
\* line that gives the key.
C13_MappingLoad ==
    (loads >= 1 /\ cfg.exists /\ cfg.readable) =>
        LET good == {j \in 1..Len(cfg.lines) : WellFormed(cfg.lines[j])}
        IN  /\ loads >= 2 => prev_map = mac_to_name
            /\ {mac_to_name[k].mac : k \in 1..Len(mac_to_name)}
                   = {KeyOf(cfg.lines[j]) : j \in good}
            /\ \A k, h \in 1..Len(mac_to_name) :
                   mac_to_name[k].mac = mac_to_name[h].mac => k = h
            /\ \A k \in 1..Len(mac_to_name) :
                   /\ Lower(mac_to_name[k].mac) = mac_to_name[k].mac
                   /\ \E j \in good :
                         /\ KeyOf(cfg.lines[j]) = mac_to_name[k].mac
                         /\ NameOf(cfg.lines[j]) = mac_to_name[k].name
                         /\ \A h \in good :
                               KeyOf(cfg.lines[h]) = mac_to_name[k].mac => h <= j

\* C13 witness: a file loaded twice whose two lines give the same key, in
\* different case, with different names
C13_Witness ==
    /\ loads = 2
    /\ Len(cfg.lines) = 2
    /\ WellFormed(cfg.lines[1]) /\ WellFormed(cfg.lines[2])
    /\ cfg.lines[1] # cfg.lines[2]
    /\ SubSeq(cfg.lines[1], 1, 11) # SubSeq(cfg.lines[2], 1, 11)
    /\ KeyOf(cfg.lines[1]) = KeyOf(cfg.lines[2])
    /\ NameOf(cfg.lines[1]) # NameOf(cfg.lines[2])
    /\ Len(mac_to_name) = 1
    /\ mac_to_name[1].name = NameOf(cfg.lines[2])

\* C20: listUsableDevices returns the empty sequence when the mapping is
\* empty, and then runs no scan at all; it also returns the empty sequence
\* when the scan fails or times out.
C20_EmptyMappingNoScan ==
    UsableDone =>
        /\ mac_to_name = <<>> => (dm_usable = <<>> /\ scans = <<>>)
        /\ ~ScanOk(LastScan) => dm_usable = <<>>

\* the scan lines that hold the MAC of entry e, both read normalized
LinesWith(e, lines) ==
    {j \in 1..Len(lines) : Contains(normalized(lines[j]), normalized(e.mac))}

FirstLineWith(e, lines) ==
    CHOOSE j \in LinesWith(e, lines) : \A h \in LinesWith(e, lines) : j <= h

\* the mapping entries whose MAC occurs in the scan output
Occurring(m, lines) == {k \in 1..Len(m) : LinesWith(m[k], lines) # {}}

\* those of them whose first line also holds an IPv4 address
Locating(m, lines) ==
    {k \in Occurring(m, lines) :
        re_search_ip(lines[FirstLineWith(m[k], lines)]) # None}

\* out holds, in mapping order, exactly one element per entry of ks, made
\* of the entry's name and MAC and the address of its first line
EmitsFor(ks, m, lines, out) ==
    /\ Len(out) = Cardinality(ks)
    /\ \A k \in ks :
          LET u == Cardinality({h \in ks : h <= k})
          IN  out[u] = [ip |-> re_search_ip(lines[FirstLineWith(m[k], lines)]),
                        name |-> m[k].name, mac |-> m[k].mac]

\* C21 as stated: after a successful scan listUsableDevices has scanned
\* once and emitted exactly one element for every mapping entry whose MAC
\* occurs in the scan output, with the address of the first line holding it.
C21_AsStated ==
    (UsableDone /\ ScanOk(LastScan)) =>
        /\ Len(scans) = 1
        /\ EmitsFor(Occurring(mac_to_name, ScanLines(LastScan)), mac_to_name,
                    ScanLines(LastScan), dm_usable)
        /\ Len(dm_usable) <= Len(mac_to_name)

\* C21: after a successful scan listUsableDevices has scanned once and
\* emitted exactly one element, with the entry's name and the address of the
\* first scan line holding the entry's MAC, for every mapping entry whose
\* first such line holds an IPv4 address; an entry whose MAC does not occur,
\* or whose first line holds no address, emits none, later lines are
\* ignored, and the result is never longer than the mapping.
C21_UsableDevices ==
    (UsableDone /\ ScanOk(LastScan)) =>
        /\ Len(scans) = 1
        /\ EmitsFor(Locating(mac_to_name, ScanLines(LastScan)), mac_to_name,
                    ScanLines(LastScan), dm_usable)
        /\ Len(dm_usable) <= Len(mac_to_name)

\* an entry whose MAC is on two scan lines was emitted, and another entry
\* of the mapping was not
C21_Witness ==
    /\ UsableDone /\ ScanOk(LastScan)
    /\ \E k \in Locating(mac_to_name, ScanLines(LastScan)) :
          Cardinality(LinesWith(mac_to_name[k], ScanLines(LastScan))) >= 2
    /\ Len(dm_usable) >= 1
    /\ Len(dm_usable) < Len(mac_to_name)

\* C30: resolveName returns a mapped name only when a line of the scan
\* output gives, as its address, exactly the bare address of the device id,
\* and the name is the one mapped to the MAC of that line; a line for a
\* host whose address merely contains the bare address does not count.
C30_ExactScanEntry ==
    (ResolveDone /\ dm_mac # None /\ HasKey(mac_to_name, dm_mac)) =>
        LET lines == ScanLines(LastScan)
        IN  \E j \in 1..Len(lines) :
                /\ re_search_ip(lines[j]) = ip_part(dm_arg)
                /\ re_search_mac(lines[j]) # None
                /\ Lower(re_search_mac(lines[j])) = dm_mac
                /\ dm_name = Lookup(mac_to_name, dm_mac)

-----------------------------------------------------------------------------
(* Properties of the command runner, under SpecRun.                         *)

\* t is s without its leading and trailing whitespace
TrimOf(s, t) ==
    \E a \in 0..Len(s) :
        /\ a + Len(t) <= Len(s)
        /\ SubSeq(s, a + 1, a + Len(t)) = t
        /\ \A k \in 1..a : IsSpace(s[k])
        /\ \A k \in (a + Len(t) + 1)..Len(s) : IsSpace(s[k])
        /\ t # <<>> => (~IsSpace(t[1]) /\ ~IsSpace(t[Len(t)]))

\* C14: one invocation of the runner executes the external command at most
\* once, and what it returns is decided by the outcome: exit code 0 gives
\* success with the trimmed stdout and no error; another exit code gives
\* failure with the trimmed stdout and the trimmed stderr; a timeout gives
\* failure with the fixed timed-out error and no output.
C14_RunnerClassification ==
    /\ r_execs <= 1
    /\ (r_out.done /\ r_in.exe # None) =>
          LET o == r_in.outcome
              r == r_out.result
          IN  /\ r_execs = 1
              /\ (o.kind = "exit" /\ o.rc = 0) =>
                    /\ r.success
                    /\ r.output # None /\ TrimOf(o.stdout, r.output)
                    /\ r.error = None
              /\ (o.kind = "exit" /\ o.rc # 0) =>
                    /\ ~r.success
                    /\ r.output # None /\ TrimOf(o.stdout, r.output)
                    /\ r.error # None /\ TrimOf(o.stderr, r.error)
              /\ o.kind = "timeout" =>
                    r = CommandResult(FALSE, None, ERR_TIMEOUT)

\* C14 witness: a nonzero exit whose stdout and stderr both carry
\* surrounding whitespace has been classified
C14_Witness ==
    /\ r_out.done
    /\ r_in.exe # None
    /\ r_in.outcome.kind = "exit"
    /\ r_in.outcome.rc = 255
    /\ r_in.outcome.stdout = <<" ", "ok", "\n">>
    /\ r_in.outcome.stderr = <<"a", "\n", " ", "b", "\r", "\n", "\n">>
    /\ r_out.result.error = <<"a", "\n", " ", "b">>

-----------------------------------------------------------------------------
(* Properties of the diagnosis pass, under SpecDiag.                        *)

\* the check that writes a given line of the report: 1 artifact, 2 device
\* connectivity, 3 bridge version, 4 device storage
DiagCheckOf(l) ==
    IF l \in {DIAG_APK_MISSING, DIAG_APK_EXISTS} \/ Head(l) = "APK file size: "
    THEN 1
    ELSE IF l \in {DIAG_DEV_MISSING, DIAG_DEV_CONNECTED}
            \/ Head(l) \in {"device model: ", "Android version: "}
    THEN 2
    ELSE IF l \in {DIAG_ADB_OK, DIAG_ADB_BAD}
            \/ Head(l) \in {"ADB version: ", "ADB error: "}
    THEN 3
    ELSE IF l \in {DIAG_STORAGE_OK, DIAG_STORAGE_BAD} THEN 4
    ELSE 0

\* a read-only bridge command: enumeration, property query, version query,
\* storage query
ReadOnlyCall(c) ==
    \/ c.cmd.verb \in {"devices", "version"}
    \/ c.cmd.verb = "shell" /\ c.cmd.flags \in {<<"getprop">>, <<"df">>}

\* the rank of a command in the order of the pass
DiagRank(c) ==
    IF c.cmd.verb = "devices" THEN 1
    ELSE IF c.cmd.verb = "shell" /\ c.cmd.flags = <<"getprop">> THEN 2
    ELSE IF c.cmd.verb = "version" THEN 3
    ELSE 4

\* C15: the diagnosis pass runs its four checks in the order artifact,
\* device connectivity, bridge version, device storage; each check writes
\* at least one line of the report whatever the earlier checks found; the
\* pass issues read-only bridge commands only; and it always comes to its
\* end and returns the report.
C15_DiagnosisPass ==
    op = "diagnose" =>
        /\ \A k \in 1..Len(calls) : ReadOnlyCall(calls[k])
        /\ \A k \in 1..Len(calls), h \in 1..Len(calls) :
              k < h => DiagRank(calls[k]) <= DiagRank(calls[h])
        /\ \A k \in 1..Len(diagnosis) : DiagCheckOf(diagnosis[k]) \in 1..4
        /\ \A k \in 1..Len(diagnosis), h \in 1..Len(diagnosis) :
              k < h => DiagCheckOf(diagnosis[k]) <= DiagCheckOf(diagnosis[h])
        /\ pc # "done" => ENABLED DiagNext
        /\ pc = "done" =>
              /\ \A c \in 1..4 :
                    \E k \in 1..Len(diagnosis) : DiagCheckOf(diagnosis[k]) = c
              /\ \E k \in 1..Len(calls) : calls[k].cmd.verb = "version"
              /\ calls[Len(calls)].cmd.flags = <<"df">>

\* C15 witness: a pass in which every check failed: no artifact, no bridge
\* executable, so no device, no version and no storage
C15_Witness ==
    /\ op = "diagnose"
    /\ pc = "done"
    /\ ~fs.exists
    /\ adb_exe = None
    /\ \A k \in 1..Len(calls) : ~calls[k].result.success
    /\ diagnosis = <<DIAG_APK_MISSING, DIAG_DEV_MISSING, DIAG_ADB_BAD,
                     DIAG_ADB_ERROR(calls[2].result), DIAG_STORAGE_BAD>>

-----------------------------------------------------------------------------
(* Properties of the public operations together, under SpecOps.             *)

\* a value the runner's callers hand back: a success, or a failure that
\* carries its error text
IsResultValue(r) == r.success \in BOOLEAN /\ (r.success \/ r.error # None)

\* C16: whatever the bridge does (success, nonzero exit, timeout, tool
\* unavailable) and whatever the state of the artifact and of the mapping
\* file, no public core operation ends in an uncaught fault: each call of
\* listDevices, getDeviceInfo, resolveName, listUsableDevices, connect,
\* disconnect and install goes on until it returns, and what install,
\* connect and disconnect return is a result value.
C16_OperationsReturn ==
    /\ pc # "fault"
    /\ pc # "done" =>
          ENABLED (CoreNext \/ EnumerateDevices \/ Disconnect \/ UninstallApp
                       \/ ClearAppCache \/ ForceStopApp \/ PullLogs)
    /\ dm_pc = "m_ready" => (ENABLED GetDeviceName /\ ENABLED GetUsableDevices)
    /\ (pc = "done" /\ op \in {"install", "connect", "disconnect", "uninstall",
                                "clear_cache", "force_stop"})
          => IsResultValue(ret)
    /\ (pc = "done" /\ op = "pull_logs") => ret \in BOOLEAN
    /\ ResolveDone => dm_name # None

\* C16 witness: an install whose five strategies all timed out has gone
\* through the diagnosis pass and returned a failure
C16_Witness ==
    /\ op = "install"
    /\ pc = "done"
    /\ Len(InstallCalls) = 5
    /\ \A k \in 1..5 : InstallCalls[k].result.error = ERR_TIMEOUT
    /\ ~ret.success
    /\ ret.error # None

-----------------------------------------------------------------------------
(* Properties of the scheduling of blocking calls, under SpecUI.            *)

\* C17: no bridge invocation and no neighbor-discovery scan runs on the
\* controlling (UI) context: no handler or completion callback, the one of
\* a device-list refresh included, makes such a call itself.
C17_NoBlockingOnUi == ui_blocking = <<>>

-----------------------------------------------------------------------------
(* Further properties of install and connect, under Spec and SpecFair.      *)

\* C24: a strategy that timed out is an ordinary failure: the call does not
\* end on it and does not repeat it; the next bridge command is the next
\* strategy of the ladder, or the first command of the diagnosis pass when
\* the strategy was the fifth.
C24_TimeoutIsOrdinary ==
    \A k \in 1..Len(calls) :
        (IsInstallCall(calls[k]) /\ calls[k].result.error = ERR_TIMEOUT) =>
            LET IsBefore(j) == j <= k /\ IsInstallCall(calls[j])
                n == Cardinality({j \in 1..Len(calls) : IsBefore(j)})
            IN  /\ k = Len(calls) =>
                      IF n < Len(Ladder)
                      THEN pc = "i_strategy" /\ i = n + 1
                      ELSE pc = "d_devices"
                /\ k < Len(calls) =>
                      /\ calls[k + 1].cmd # calls[k].cmd
                      /\ IF n < Len(Ladder)
                         THEN calls[k + 1].cmd =
                                  Cmd(device_id, "install", Ladder[n + 1],
                                      apk_path)
                         ELSE IsDevicesCall(calls[k + 1])

\* C24 witness: the second strategy timed out and the third was issued; and
\* the fifth timed out and the diagnosis pass ran
C24_Witness ==
    /\ op = "install"
    /\ pc = "done"
    /\ Len(InstallCalls) = 5
    /\ InstallCalls[2].result.error = ERR_TIMEOUT
    /\ InstallCalls[5].result.error = ERR_TIMEOUT
    /\ diagnosis # <<>>

\* the positions in the log of the precondition enumeration, and of the
\* commands of the diagnosis pass
StrategyBefore(j) == \E h \in 1..(j - 1) : IsInstallCall(calls[h])

PreconditionCalls ==
    {j \in 1..Len(calls) : ~IsInstallCall(calls[j]) /\ ~StrategyBefore(j)}

DiagnosisCalls ==
    {j \in 1..Len(calls) : ~IsInstallCall(calls[j]) /\ StrategyBefore(j)}

DiagnosisCallsOfRank(rank) ==
    {j \in DiagnosisCalls : DiagRank(calls[j]) = rank}

C25_Bound ==
    op = "install" =>
        /\ Len(calls) <= 12
        /\ Cardinality(PreconditionCalls) <= 1
        /\ \A j \in PreconditionCalls : j = 1 /\ IsDevicesCall(calls[j])
        /\ Len(InstallCalls) <= 5
        /\ Cardinality(DiagnosisCalls) <= 6
        /\ Cardinality(DiagnosisCallsOfRank(1)) <= 1
        /\ Cardinality(DiagnosisCallsOfRank(2)) <= 3
        /\ Cardinality(DiagnosisCallsOfRank(3)) <= 1
        /\ Cardinality(DiagnosisCallsOfRank(4)) <= 1

\* C25: every install call terminates, given that each bridge invocation
\* returns, and issues at most 12 bridge invocations: at most one
\* precondition enumeration, five strategy commands and six diagnosis
\* commands (one enumeration, three property queries, one version query,
\* one storage query).
C25_InstallTerminates ==
    /\ []C25_Bound
    /\ (op = "install") ~> (pc = "done")

\* C25 witness: an install call that has returned after 12 invocations
C25_Witness ==
    /\ op = "install"
    /\ pc = "done"
    /\ Len(calls) = 12
    /\ Cardinality(DiagnosisCalls) = 6

\* C28: in the ambiguous case connect returns success only when the
\* enumeration holds a usable device whose id is exactly the requested
\* address (with adb's default port when the request names none); an id
\* that merely contains the requested address does not make it succeed.
C28_ExactAddress ==
    (/\ op = "connect"
     /\ pc = "done"
     /\ Len(calls) = 2
     /\ AmbiguousConnect(calls[1].result)
     /\ ret.success) =>
        LET ds == get_connected_devices(calls[2].result)
        IN  \E k \in 1..Len(ds) :
                \/ ds[k].id = ip_address
                \/ ds[k].id = ip_address \o <<":", "5555">>

\* C29: with no bridge executable, install on an existing artifact returns
\* the device-not-connected failure after the one precondition
\* enumeration, which failed with the tool-not-found error; no strategy
\* and no diagnosis command is issued, and the tool-not-found text is not
\* in what install returns.
C29_ToolMissingInstall ==
    (op = "install" /\ adb_exe = None /\ os_path_exists(fs) /\ pc = "done") =>
        /\ ret = Failure(ERR_NOT_CONNECTED(device_id))
        /\ Len(calls) = 1
        /\ calls[1].cmd = Cmd(None, "devices", <<>>, None)
        /\ calls[1].result = Failure(ERR_TOOL_NOT_FOUND)
        /\ diagnosis = <<>>
        /\ ~Contains(ret.error, ERR_TOOL_NOT_FOUND)

\* C29 witness: a valid artifact, no bridge executable, install returned
C29_Witness ==
    /\ op = "install"
    /\ adb_exe = None
    /\ is_valid_apk(apk_path, fs)
    /\ pc = "done"
    /\ ~ret.success

-----------------------------------------------------------------------------
(* Further properties of the public operations, under SpecOps.              *)

\* C22: listDevices returns the empty list whenever its enumeration command
\* failed (nonzero exit, timeout, no bridge executable), whatever the
\* command printed; it raises nothing and returns no error value.
C22_EnumerationFailure ==
    op = "list_devices" =>
        /\ pc # "fault"
        /\ (pc = "done" /\ ~calls[1].result.success) =>
              /\ Len(calls) = 1
              /\ devices = <<>>
              /\ ret = NoResult

\* C22 witness: the enumeration exited nonzero after printing a listing
\* with a usable device, and listDevices returned
C22_Witness ==
    /\ op = "list_devices"
    /\ pc = "done"
    /\ ~calls[1].result.success
    /\ calls[1].result.output # None
    /\ Contains(calls[1].result.output, ID_5)
    /\ devices = <<>>

-----------------------------------------------------------------------------
(* Properties of the executable lookup, under SpecResolve.                  *)

NotFoundResult == CommandResult(FALSE, None, ERR_TOOL_NOT_FOUND)

\* C23 as stated: the executable path is resolved once, so every invocation
\* uses the path the first one found; and when that path is unresolvable
\* every invocation fails with the fixed tool-not-found error and no
\* output, without executing a process.
C23_AsStated ==
    \A k \in 1..Len(r_log) :
        /\ r_log[k].exe = r_log[1].exe
        /\ r_log[1].exe = None =>
              (r_log[k].result = NotFoundResult /\ r_log[k].execs = 0)

\* C23: the executable path is resolved at every invocation, from the file
\* system as it is then; an invocation that finds no executable fails with
\* the fixed tool-not-found error and no output without executing any
\* process, and no invocation executes more than one.
C23_ToolMissing ==
    \A k \in 1..Len(r_log) :
        /\ r_log[k].exe = None <=> ~r_log[k].found
        /\ ~r_log[k].found =>
              (r_log[k].result = NotFoundResult /\ r_log[k].execs = 0)
        /\ r_log[k].execs <= 1

\* C23 witness: an invocation found no executable and failed; adb.exe was
\* then put in place, and the next invocation executed the command
C23_Witness ==
    /\ Len(r_log) >= 2
    /\ ~r_log[1].found
    /\ r_log[1].result = NotFoundResult
    /\ r_log[2].found
    /\ r_log[2].execs = 1
    /\ r_log[2].result.success

-----------------------------------------------------------------------------
(* Properties of the slot over time, under SpecUIFair and SpecUI.           *)

\* the slot changes from a worker to anything else only by that worker's
\* completion, which empties the slot and collects the worker
C26_ClearsOnce ==
    (current_worker # 0 /\ current_worker' # current_worker) =>
        /\ current_worker' = 0
        /\ \E w \in workers :
              /\ w.id = current_worker
              /\ w.state \in {"emitted", "called"}
              /\ workers' = workers \ {w}

\* a single-flight request that finds the slot empty is accepted
C26_AcceptedWhenFree ==
    (current_worker = 0 /\ RequestStep /\ last'.op \in SlotKinds) =>
        /\ ~last'.busy
        /\ current_worker' # 0
        /\ last'.started = current_worker'
        /\ \E w \in workers' \ workers : w.id = current_worker'

\* C26: every accepted single-flight operation completes, whatever its
\* outcome; the completion empties the slot, once, and collects the worker;
\* a single-flight request made when the slot is empty is accepted; so the
\* slot is never occupied forever.
C26_SlotClears ==
    /\ (current_worker # 0) ~> (current_worker = 0)
    /\ [][C26_ClearsOnce]_vars
    /\ [][C26_AcceptedWhenFree]_vars

\* C26 witness: a disconnect has completed with a failure and set its
\* timer, the slot was emptied, and a later single-flight request was
\* accepted and is running
C26_Witness ==
    /\ timers["disconnect"] = 1
    /\ current_worker # 0
    /\ last.started = current_worker
    /\ ~last.busy
    /\ workers = {Worker(current_worker, last.op, "running", FALSE)}

\* a timer set by a connect or disconnect completion fires in this step
FollowUpShot == \E s \in {"connect", "disconnect"} : timers'[s] < timers[s]

\* a completion callback of worker w runs in this step
CallbackOf(w) ==
    /\ w \in workers
    /\ w.state = "emitted"
    /\ Worker(w.id, w.kind, "called", w.success) \in workers'

\* C27: the completion of a disconnect (either outcome) and the successful
\* completion of a connect each set one refresh timer, and the completion
\* of a failed connect sets none; and when such a timer fires, a
\* device-list refresh is started, unless one started since the completion
\* is in the slot already.
C27_FollowUpRefresh ==
    /\ [][\A w \in workers :
            CallbackOf(w) =>
                timers' =
                    IF w.kind = "disconnect" \/ (w.kind = "connect" /\ w.success)
                    THEN [timers EXCEPT ![w.kind] = @ + 1]
                    ELSE timers]_vars
    /\ [][FollowUpShot =>
            \E w \in workers' :
                /\ w.kind = "refresh"
                /\ current_worker' = w.id]_vars

=============================================================================
